---- MODULE Spec2Model ----
(***************************************************************************)
(* Claims synchronization pipeline of suspect-engine: the batched          *)
(* set-fetch loader (test.py) and the concurrent per-member loader         *)
(* (update_member_claim.py), both upserting one merged document per        *)
(* member into the staging collection.                                     *)
(*                                                                         *)
(* Representation of MongoDB documents                                     *)
(*  - a nested document (eligibility record, medical claim) is the set of  *)
(*    its leaves <<path, value>>; a path is a sequence of keys and a key   *)
(*    is the sequence of its dot-separated segments, so the literal key    *)
(*    "address.city" is <<"address","city">> and the plain key "plan" is   *)
(*    <<"plan">>;                                                          *)
(*  - a flat document (crosswalk entry, pharmacy claim) is a function      *)
(*    from field names to values, a missing field being outside DOMAIN;    *)
(*  - scalar values are strings; the integer n is coded "int:n", a         *)
(*    datetime is coded "dt:YYYY-MM-DD", Python's None is NULL.            *)
(***************************************************************************)
EXTENDS Integers, Sequences, FiniteSets, TLC

----------------------------------------------------------------------------
(* Bounds of the model *)

\* longest eligibility collection explored
MaxElig == 3
\* largest batch_size argument explored
MaxBatchSize == 3
\* number of invocations of load_members_claims_to_database explored
MaxRuns == 2
\* number of injected failures (query errors, rejected writes) per behaviour
MaxFaults == 1
\* number of times the wall clock is seen to advance between two reads of
\* one run (it always advances between two runs)
MaxTicks == 1
\* flush threshold of update_member_claim.process_batch (50 in the source,
\* scaled down so that a batch can exceed it)
ConcFlushSize == 2
\* flush threshold of test.process_batch (500 in the source, scaled down)
BatchFlushSize == 3
\* longest crosswalk collection explored when the crosswalk loader is
\* checked on its own
MaxCrosswalk == 3
\* longest staging collection the suspect engine is run over
MaxStaged == 5
\* largest max_workers argument explored
MaxWorkers == 2

----------------------------------------------------------------------------
(* Scalar values and conversions *)

NULL == "<None>"

\* Python truthiness of a scalar: None, "" and 0 are falsy
Truthy(v) == v \notin {NULL, "", "int:0"}

\* str(v): the decimal text of an integer, a string unchanged
Str(v) ==
  CASE v = "int:7" -> "7"
    [] v = "int:0" -> "0"
    [] v = NULL -> "None"
    [] OTHER -> v

\* values that carry a strftime method (datetime objects)
IsDatetime(v) == v \in {"dt:2024-01-05", "dt:2023-12-31"}

\* val.strftime("%Y-%m-%d")
Strftime(v) ==
  CASE v = "dt:2024-01-05" -> "2024-01-05"
    [] v = "dt:2023-12-31" -> "2023-12-31"
    [] OTHER -> NULL

\* safe_date: falsy -> None; strftime result; any exception -> None
safe_date(val) ==
  IF ~Truthy(val) THEN NULL
  ELSE IF IsDatetime(val) THEN Strftime(val)
  ELSE NULL

\* dict.get(key) on a flat document
Get(doc, k) == IF k \in DOMAIN doc THEN doc[k] ELSE NULL

\* dict.get(key, default) on a mapping
MapGet(map, k, default) == IF k \in DOMAIN map THEN map[k] ELSE default

\* the empty dict
EmptyMap == << >>

\* mapping[k] = v
MapPut(map, k, v) == (k :> v) @@ map

----------------------------------------------------------------------------
(* Nested documents as leaf sets *)

\* the path made of plain (undotted) keys with the given names
P(names) == [j \in 1..Len(names) |-> <<names[j]>>]

\* key.split("."): one plain key per segment
SplitKey(key) == [j \in 1..Len(key) |-> <<key[j]>>]

RECURSIVE UndotPath(_)
UndotPath(path) ==
  IF path = << >> THEN << >>
  ELSE SplitKey(Head(path)) \o UndotPath(Tail(path))

\* undot_keys on a leaf set: every dotted key becomes a chain of nested keys
undot_leaves(doc) == { <<UndotPath(l[1]), l[2]>> : l \in doc }

\* the value stored at a path of a nested document, NULL when absent
LeafGet(doc, path) ==
  IF \E l \in doc : l[1] = path
  THEN (CHOOSE l \in doc : l[1] = path)[2]
  ELSE NULL

\* a find() inclusion projection keeps the leaves under one of its paths
Included(path, projection) ==
  \E p \in projection :
    /\ Len(p) <= Len(path)
    /\ \A j \in 1..Len(p) : path[j] = <<p[j]>>

Project(doc, projection) == { l \in doc : Included(l[1], projection) }

\* elements of a sequence
Range(s) == { s[j] : j \in DOMAIN s }

----------------------------------------------------------------------------
(* Crosswalk loader *)

RECURSIVE CrosswalkFold(_, _)
CrosswalkFold(docs, mapping) ==
  IF docs = << >> THEN mapping
  ELSE LET doc == Head(docs)
           mid == Get(doc, "MemberID")
           mbi == Get(doc, "MBI")
       IN  CrosswalkFold(Tail(docs),
                         IF Truthy(mid) /\ Truthy(mbi)
                         THEN MapPut(mapping, Str(mid), mbi)
                         ELSE mapping)

\* mutant: "if mid and mbi" tests mid only
get_mbi_crosswalk_map_keeps_partial(coll) ==
  LET with_mid == { j \in DOMAIN coll : Truthy(Get(coll[j], "MemberID")) }
      last(m) == CHOOSE j \in with_mid :
                   /\ Str(coll[j].MemberID) = m
                   /\ \A i \in with_mid : Str(coll[i].MemberID) = m => i <= j
  IN  [m \in { Str(coll[j].MemberID) : j \in with_mid } |-> Get(coll[last(m)], "MBI")]

\* MemberID -> MBI over one scan of the crosswalk collection
get_mbi_crosswalk_map(coll) == CrosswalkFold(coll, EmptyMap)

----------------------------------------------------------------------------
(* Claim fetchers *)

SubscriberPath == P(<<"Member", "Subscriber_ID">>)

\* projection of test.batch_fetch_medical_claims
BatchMedicalProjection ==
  { <<"Diagnosis", "Diag_Codes">>, <<"ServiceLine">>, <<"Claim">>,
    <<"Type_of_Bill">>, <<"Provider">>, <<"Member", "Subscriber_ID">> }

\* projection of update_member_claim.fetch_member_claims
MemberMedicalProjection ==
  { <<"Diagnosis", "Diag_Codes">>,
    <<"ServiceLine", "LXServiceNo">>, <<"ServiceLine", "BilledCPT_Code">>,
    <<"ServiceLine", "BilledCPTDesc">>, <<"ServiceLine", "Line_SvcDate">>,
    <<"Claim", "ClaimID">>, <<"Claim", "POS">>, <<"Type_of_Bill">>,
    <<"Provider", "BillProv_NPI">>, <<"Provider", "BillProv_LastName">>,
    <<"Member", "Subscriber_ID">>, <<"Member", "Subscriber_DOB">>,
    <<"Member", "Subscriber_Gender">> }

\* projection of both pharmacy queries
PharmacyProjection ==
  { "Member ID", "NDC", "Product Label Name", "Fill Date", "Days Supply",
    "Metric Quantity", "Prescriber ID", "Prescriber Name", "Total Billed" }

ProjectFlat(doc, fields) == [k \in (DOMAIN doc) \cap fields |-> doc[k]]

\* the canonical pharmacy claim built from one source document
NormalizePharmacy(pc, member_id) ==
  [ memberId          |-> member_id,
    ndc               |-> IF Truthy(Get(pc, "NDC")) THEN Str(Get(pc, "NDC")) ELSE NULL,
    drugName          |-> Get(pc, "Product Label Name"),
    fillDate          |-> safe_date(Get(pc, "Fill Date")),
    daysSupply        |-> Get(pc, "Days Supply"),
    quantityDispensed |-> Get(pc, "Metric Quantity"),
    prescriberNPI     |-> Get(pc, "Prescriber ID"),
    prescriberName    |-> Get(pc, "Prescriber Name"),
    totalBilled       |-> Get(pc, "Total Billed") ]

\* defaultdict(list): map[key].append(item)
MapAppend(map, key, item) == MapPut(map, key, Append(MapGet(map, key, << >>), item))

RECURSIVE GroupMedical(_, _)
GroupMedical(cursor, med_map) ==
  IF cursor = << >> THEN med_map
  ELSE LET doc == Head(cursor)
           key == LeafGet(doc, SubscriberPath)
       IN  GroupMedical(Tail(cursor),
                        IF Truthy(key) THEN MapAppend(med_map, key, doc) ELSE med_map)

\* one $in query on Member.Subscriber_ID, grouped by Subscriber_ID
batch_fetch_medical_claims(coll, ids) ==
  LET matching == SelectSeq(coll, LAMBDA c : LeafGet(c, SubscriberPath) \in Range(ids))
      cursor == [j \in 1..Len(matching) |-> Project(matching[j], BatchMedicalProjection)]
  IN  GroupMedical(cursor, EmptyMap)

RECURSIVE GroupPharmacy(_, _)
GroupPharmacy(cursor, pharm_map) ==
  IF cursor = << >> THEN pharm_map
  ELSE LET pc == Head(cursor)
           member_id == Str(Get(pc, "Member ID"))
       IN  GroupPharmacy(Tail(cursor),
                         MapAppend(pharm_map, member_id, NormalizePharmacy(pc, member_id)))

\* one $in query on Member ID, normalized and grouped by str(Member ID)
batch_fetch_pharmacy_claims(coll, ids) ==
  LET matching == SelectSeq(coll, LAMBDA c : Get(c, "Member ID") \in Range(ids))
      cursor == [j \in 1..Len(matching) |-> ProjectFlat(matching[j], PharmacyProjection)]
  IN  GroupPharmacy(cursor, EmptyMap)

\* undot_keys applied to an eligibility record: memberId is a plain scalar key
undot_keys(el) == [memberId |-> el.memberId, attrs |-> undot_leaves(el.attrs)]

\* mutant: mbi_map.get(mid) without the fallback to the raw id
MbiLookup_no_fallback(mapping, member_id) == MapGet(mapping, member_id, NULL)

\* mutant: the crosswalk is ignored
MbiLookup_raw(mapping, member_id) == member_id

\* the identifier a member's medical claims are looked up under
MbiLookup(mapping, member_id) == MapGet(mapping, member_id, member_id)

\* the identifier a member's pharmacy claims are looked up under
PharmacyLookup(mapping, member_id) == member_id

\* medical claims of one member, per-member query
FetchMedical(coll, mbi_lookup) ==
  LET matching == SelectSeq(coll, LAMBDA c : LeafGet(c, SubscriberPath) = mbi_lookup)
  IN  [j \in 1..Len(matching) |->
         undot_leaves(Project(matching[j], MemberMedicalProjection))]

\* pharmacy claims of one member, per-member query
FetchPharmacy(coll, member_id, lookup) ==
  LET matching == SelectSeq(coll, LAMBDA c : Get(c, "Member ID") = lookup)
  IN  [j \in 1..Len(matching) |->
         NormalizePharmacy(ProjectFlat(matching[j], PharmacyProjection), member_id)]

\* update_member_claim.fetch_member_claims: the merged document of one member
fetch_member_claims(el, medical_coll, pharmacy_coll, mapping, t) ==
  LET member_id == Str(el.memberId)
      mbi_lookup == MbiLookup(mapping, member_id)
  IN  [ memberId       |-> member_id,
        eligibility    |-> undot_keys(el),
        medicalClaims  |-> FetchMedical(medical_coll, mbi_lookup),
        pharmacyClaims |-> FetchPharmacy(pharmacy_coll, member_id,
                                         PharmacyLookup(mapping, member_id)),
        updatedAt      |-> t,
        createdAt      |-> t ]

\* test.process_batch, lines 212-219: the merged document of batch element i
BatchDoc(el, mid, mbi_lookup, med_map, pharm_map, t) ==
  [ memberId       |-> mid,
    eligibility    |-> el,
    medicalClaims  |-> MapGet(med_map, mbi_lookup, << >>),
    pharmacyClaims |-> MapGet(pharm_map, mid, << >>),
    updatedAt      |-> t,
    createdAt      |-> t ]

----------------------------------------------------------------------------
(* Bulk upsert writer *)

\* mutant: the filter also pins the timestamp, so a later run matches nothing
UpsertOp_filter_ts(doc) ==
  [ filter      |-> [memberId |-> doc.memberId, updatedAt |-> doc.updatedAt],
    set         |-> [ eligibility    |-> doc.eligibility,
                      medicalClaims  |-> doc.medicalClaims,
                      pharmacyClaims |-> doc.pharmacyClaims,
                      updatedAt      |-> doc.updatedAt ],
    setOnInsert |-> [createdAt |-> doc.createdAt, memberId |-> doc.memberId],
    upsert      |-> TRUE ]

\* mutant: createdAt written under $set
UpsertOp_created_in_set(doc) ==
  [ filter      |-> [memberId |-> doc.memberId],
    set         |-> [ eligibility    |-> doc.eligibility,
                      medicalClaims  |-> doc.medicalClaims,
                      pharmacyClaims |-> doc.pharmacyClaims,
                      updatedAt      |-> doc.updatedAt,
                      createdAt      |-> doc.createdAt ],
    setOnInsert |-> [memberId |-> doc.memberId],
    upsert      |-> TRUE ]

\* mutant: an empty claim list is left out of $set
UpsertOp_skip_empty_claims(doc) ==
  [ filter      |-> [memberId |-> doc.memberId],
    set         |-> IF doc.medicalClaims = << >>
                    THEN [ eligibility    |-> doc.eligibility,
                           pharmacyClaims |-> doc.pharmacyClaims,
                           updatedAt      |-> doc.updatedAt ]
                    ELSE [ eligibility    |-> doc.eligibility,
                           medicalClaims  |-> doc.medicalClaims,
                           pharmacyClaims |-> doc.pharmacyClaims,
                           updatedAt      |-> doc.updatedAt ],
    setOnInsert |-> [createdAt |-> doc.createdAt, memberId |-> doc.memberId],
    upsert      |-> TRUE ]

\* mutant: updatedAt written under $setOnInsert
UpsertOp_updated_on_insert(doc) ==
  [ filter      |-> [memberId |-> doc.memberId],
    set         |-> [ eligibility    |-> doc.eligibility,
                      medicalClaims  |-> doc.medicalClaims,
                      pharmacyClaims |-> doc.pharmacyClaims ],
    setOnInsert |-> [createdAt |-> doc.createdAt, memberId |-> doc.memberId,
                     updatedAt |-> doc.updatedAt],
    upsert      |-> TRUE ]

\* UpdateOne({"memberId": mid}, {"$set": ..., "$setOnInsert": ...}, upsert=True)
UpsertOp(doc) ==
  [ filter      |-> [memberId |-> doc.memberId],
    set         |-> [ eligibility    |-> doc.eligibility,
                      medicalClaims  |-> doc.medicalClaims,
                      pharmacyClaims |-> doc.pharmacyClaims,
                      updatedAt      |-> doc.updatedAt ],
    setOnInsert |-> [createdAt |-> doc.createdAt, memberId |-> doc.memberId],
    upsert      |-> TRUE ]

\* positions of the documents an equality filter selects
Matches(coll, filter) ==
  { j \in 1..Len(coll) :
      \A k \in DOMAIN filter : k \in DOMAIN coll[j] /\ coll[j][k] = filter[k] }

\* mutant: the claim lists of $set are appended to the stored ones
ApplyUpdateOne_appends(coll, op) ==
  LET hit == Matches(coll, op.filter)
  IN  IF hit # {}
      THEN LET j == CHOOSE x \in hit : \A y \in hit : x <= y
           IN  IF "medicalClaims" \in DOMAIN op.set
               THEN [coll EXCEPT ![j] =
                       [medicalClaims |-> coll[j].medicalClaims \o op.set.medicalClaims,
                        pharmacyClaims |-> coll[j].pharmacyClaims \o op.set.pharmacyClaims]
                       @@ op.set @@ coll[j]]
               ELSE [coll EXCEPT ![j] = op.set @@ coll[j]]
      ELSE IF op.upsert
      THEN Append(coll, op.set @@ op.setOnInsert @@ op.filter)
      ELSE coll

\* the store applying one update: $set on the first matching document, or
\* an insert of filter + $set + $setOnInsert when none matches and upsert
ApplyUpdateOne(coll, op) ==
  LET hit == Matches(coll, op.filter)
  IN  IF hit # {}
      THEN LET j == CHOOSE x \in hit : \A y \in hit : x <= y
           IN  [coll EXCEPT ![j] = op.set @@ coll[j]]
      ELSE IF op.upsert
      THEN Append(coll, op.set @@ op.setOnInsert @@ op.filter)
      ELSE coll

\* collection.bulk_write(ops, ordered): rejected holds the positions of the
\* operations the store refuses; an ordered write stops at the first of them
RECURSIVE BulkApply(_, _, _, _, _)
BulkApply(coll, ops, k, ordered, rejected) ==
  IF k > Len(ops) THEN coll
  ELSE IF k \in rejected
  THEN (IF ordered THEN coll ELSE BulkApply(coll, ops, k + 1, ordered, rejected))
  ELSE BulkApply(ApplyUpdateOne(coll, ops[k]), ops, k + 1, ordered, rejected)

bulk_write(coll, ops, ordered, rejected) == BulkApply(coll, ops, 1, ordered, rejected)

\* mutant: bulk_write called with ordered=True
execute_bulk_ordered(coll, ops, outcome) ==
  IF outcome.kind = "Exception" THEN coll
  ELSE bulk_write(coll, ops, TRUE, outcome.rejected)

\* execute_bulk: unordered bulk write; BulkWriteError and any other
\* exception are logged and swallowed
execute_bulk(coll, ops, outcome) ==
  IF outcome.kind = "Exception" THEN coll
  ELSE bulk_write(coll, ops, FALSE, outcome.rejected)

----------------------------------------------------------------------------
(* Source data explored *)

Leaf(names, value) == <<P(names), value>>

\* eligibility records: two records of member A (the second one stored with
\* a literal dotted key), one of B, one of C, one whose memberId is the
\* integer 7
ElA  == [memberId |-> "A", attrs |-> {Leaf(<<"plan">>, "gold")}]
ElA2 == [memberId |-> "A", attrs |-> {<< << <<"address", "city">> >>, "NYC" >>}]
ElB  == [memberId |-> "B", attrs |-> {Leaf(<<"plan">>, "basic")}]
ElC  == [memberId |-> "C", attrs |-> {Leaf(<<"plan">>, "basic")}]
El7  == [memberId |-> "int:7", attrs |-> {Leaf(<<"plan">>, "gold")}]

\* the records an eligibility collection is drawn from, in storage order
ElMaster == <<ElA, ElB, ElA2, El7>>

RECURSIVE Pick(_, _, _)
Pick(s, keep, k) ==
  IF k > Len(s) THEN << >>
  ELSE (IF k \in keep THEN <<s[k]>> ELSE << >>) \o Pick(s, keep, k + 1)

\* the subsequences of s of at most n elements
SubSeqs(s, n) ==
  { Pick(s, keep, 1) : keep \in { K \in SUBSET (1..Len(s)) : Cardinality(K) <= n } }

EligInputs == SubSeqs(ElMaster, MaxElig)

\* crosswalk collections: empty, or A -> X followed by an entry without MBI
CrosswalkInputs ==
  { << >>,
    << [MemberID |-> "A", MBI |-> "X"], [MemberID |-> "B"] >> }

\* medical claims under X (with a field only the per-member projection
\* keeps), under A (with a field only the batch projection keeps) and under 7
MedX == { Leaf(<<"Member", "Subscriber_ID">>, "X"), Leaf(<<"Claim", "ClaimID">>, "c1"),
          Leaf(<<"Member", "Subscriber_DOB">>, "1950-02-01"), Leaf(<<"_id">>, "o1") }
MedA == { Leaf(<<"Member", "Subscriber_ID">>, "A"), Leaf(<<"Claim", "ClaimID">>, "c2"),
          Leaf(<<"Claim", "PaidAmount">>, "int:7") }
Med7 == { Leaf(<<"Member", "Subscriber_ID">>, "7"), Leaf(<<"Claim", "ClaimID">>, "c3") }
MedC == { Leaf(<<"Member", "Subscriber_ID">>, "C"), Leaf(<<"Claim", "ClaimID">>, "c4") }

\* pharmacy claims of B (datetime fill date, integer NDC), of A (a fill date
\* that is no datetime) and one stored under the integer 7
PharmB == ("Member ID" :> "B") @@ ("NDC" :> "int:7") @@ ("Fill Date" :> "dt:2024-01-05")
PharmA == ("Member ID" :> "A") @@ ("Product Label Name" :> "aspirin")
            @@ ("Fill Date" :> "2024-01-05") @@ ("_id" :> "o9")
Pharm7 == ("Member ID" :> "int:7") @@ ("NDC" :> "n7")

----------------------------------------------------------------------------
(* State *)

VARIABLES
  \* the source collections and the staging collection
  eligibility, crosswalk, edps, pharmacy, staging,
  \* load_members_claims_to_database
  pc, strategy, batch_size, mbi_map, eligibility_docs, cursor, pos, batch,
  total_processed,
  \* process_batch
  member_ids, mbi_list, medical_map, pharmacy_map, now, idx, ops, futures,
  \* environment: wall clock, clock ticks and failures still to inject
  clock, ticks, faults,
  \* history: runs started, clock at each start, flushes and queries of the
  \* current run, eligibility positions fetched, positions of the buffered
  \* operations, staging after each completed run, last run that wrote a member,
  \* find() calls issued on the claim sources in the current run
  run, run_start, flushes, queries, fetched, ops_pos, clean, history, ok_run, finds,
  \* history: the batches handed to process_batch in the current run, each
  \* with the eligibility positions its elements were consumed at
  passed,
  \* the suspect engine (main.py, update_suspect_coll.py): the collection
  \* ui.member.suspects, which of the two programs runs and where it stands,
  \* its batch_size and max_workers arguments
  member_suspects, engine, engine_pc, engine_batch_size, max_workers,
  \* main.process_all_members: documents of the eligibility cursor and how
  \* many were consumed, batch, members_with_claims, llm_output_text, suspects
  engine_docs, engine_pos, engine_batch, members_with_claims, llm_output_text,
  suspects,
  \* update_suspect_coll.process_all_members: total_docs, skip, futures
  total_docs, skip, engine_futures,
  \* total_processed of either program
  engine_total_processed,
  \* history: per processed batch, the service's response and the number of
  \* writes sent to ui.member.suspects for it
  llm_log,
  \* history: the load_members_from_staging calls of the current
  \* process_all_members call, each with its skip and the page it returned
  pages

sources == <<eligibility, crosswalk, edps, pharmacy>>
loader == <<pc, strategy, batch_size, mbi_map, eligibility_docs, cursor, pos, batch,
            total_processed>>
batchvars == <<member_ids, mbi_list, medical_map, pharmacy_map, now, idx>>
ghosts == <<run, run_start, queries, fetched, history, finds, passed>>
enginevars == <<member_suspects, engine, engine_pc, engine_batch_size, max_workers,
                engine_docs, engine_pos, engine_batch, members_with_claims,
                llm_output_text, suspects, total_docs, skip, engine_futures,
                engine_total_processed, llm_log, pages>>
loadervars == <<loader, batchvars, ops, futures, clock, ticks,
                ghosts, flushes, clean, ops_pos, ok_run>>
vars == <<sources, staging, loader, batchvars, ops, futures, clock, ticks, faults,
          ghosts, flushes, clean, ops_pos, ok_run, enginevars>>

Strategies == {"batched", "concurrent"}

\* the suspect engine before it is started
EngineIdle ==
  /\ member_suspects = << >> /\ engine = "main" /\ engine_pc = "idle"
  /\ engine_batch_size = 1 /\ max_workers = 1
  /\ engine_docs = << >> /\ engine_pos = 0 /\ engine_batch = << >>
  /\ members_with_claims = << >> /\ llm_output_text = NULL
  /\ suspects = [type |-> "list", items |-> << >>]
  /\ total_docs = 0 /\ skip = 0 /\ engine_futures = << >>
  /\ engine_total_processed = 0 /\ llm_log = << >> /\ pages = << >>

\* the state before the first run, for given source collections
InitWith(el, cw, med, pharm, nfaults, nticks) ==
  /\ eligibility = el /\ crosswalk = cw /\ edps = med /\ pharmacy = pharm
  /\ staging = << >> /\ EngineIdle
  /\ pc = "idle" /\ strategy = "batched" /\ batch_size = 1
  /\ mbi_map = EmptyMap /\ eligibility_docs = << >> /\ cursor = "none" /\ pos = 0
  /\ batch = << >> /\ total_processed = 0
  /\ member_ids = << >> /\ mbi_list = << >>
  /\ medical_map = EmptyMap /\ pharmacy_map = EmptyMap
  /\ now = 0 /\ idx = 1 /\ ops = << >> /\ futures = << >>
  /\ clock = 1 /\ ticks = nticks /\ faults = nfaults
  /\ run = 0 /\ run_start = << >> /\ flushes = << >> /\ queries = {}
  /\ passed = << >>
  /\ fetched = {} /\ ops_pos = << >> /\ clean = TRUE /\ history = << >>
  /\ ok_run = EmptyMap /\ finds = << >>

Init ==
  \E el \in EligInputs, cw \in CrosswalkInputs :
    InitWith(el, cw, <<MedX, MedA, Med7>>, <<PharmB, PharmA, Pharm7>>, MaxFaults, 0)

----------------------------------------------------------------------------
(* Failure injection *)

OkFlush == [kind |-> "ok", rejected |-> {}]

\* what bulk_write can do with a group: succeed, raise BulkWriteError after
\* the store refused some operations, or raise before writing anything
FlushOutcomes(group) ==
  {OkFlush} \cup
  (IF faults > 0
   THEN { [kind |-> "BulkWriteError", rejected |-> R] :
            R \in (SUBSET (1..Len(group))) \ {{}} }
        \cup { [kind |-> "Exception", rejected |-> {}] }
   ELSE {})

\* how far the wall clock is seen to have advanced at a datetime.now()
TickChoices == IF ticks > 0 THEN {0, 1} ELSE {0}

\* what the two claims queries of a fetch can do: both return, the medical
\* query raises, or the pharmacy query raises after the medical one returned
FetchOutcomes ==
  {"ok"} \cup (IF faults > 0 THEN {"raise_medical", "raise_pharmacy"} ELSE {})

\* mutant: the medical query is issued a second time
ClaimFinds_medical_twice(outcome, medical_ids, pharmacy_ids, at) ==
  <<[source |-> "medical", ids |-> medical_ids, at |-> at],
    [source |-> "medical", ids |-> medical_ids, at |-> at]>> \o
  (IF outcome = "raise_medical" THEN << >>
   ELSE <<[source |-> "pharmacy", ids |-> pharmacy_ids, at |-> at]>>)

\* the find() calls a fetch issues on the claim sources before returning or
\* raising; "at" is the eligibility position the fetch was issued for
ClaimFinds(outcome, medical_ids, pharmacy_ids, at) ==
  <<[source |-> "medical", ids |-> medical_ids, at |-> at]>> \o
  (IF outcome = "raise_medical" THEN << >>
   ELSE <<[source |-> "pharmacy", ids |-> pharmacy_ids, at |-> at]>>)

\* the log of find() calls: how many times each call was issued
RECURSIVE LogFinds(_, _)
LogFinds(log, calls) ==
  IF calls = << >> THEN log
  ELSE LET c == Head(calls)
       IN  LogFinds(IF c \in DOMAIN log THEN [log EXCEPT ![c] = @ + 1]
                    ELSE (c :> 1) @@ log,
                    Tail(calls))

\* positions of a group whose update reached the store
Applied(group, outcome) ==
  IF outcome.kind = "Exception" THEN {}
  ELSE (1..Len(group)) \ outcome.rejected

RECURSIVE MarkRuns(_, _, _)
MarkRuns(map, members, r) ==
  IF members = {} THEN map
  ELSE LET m == CHOOSE x \in members : TRUE
       IN  MarkRuns(MapPut(map, m, r), members \ {m}, r)

\* execute_bulk(suspects_coll, group), with its bookkeeping
Flush(group, group_pos, outcome) ==
  /\ staging' = execute_bulk(staging, group, outcome)
  /\ flushes' = Append(flushes, [ops |-> group, pos |-> group_pos, outcome |-> outcome])
  /\ faults' = IF outcome.kind = "ok" THEN faults ELSE faults - 1
  /\ clean' = (clean /\ outcome.kind = "ok")
  /\ ok_run' = MarkRuns(ok_run,
                        { group[k].filter.memberId : k \in Applied(group, outcome) }, run)

NoFlush == UNCHANGED <<staging, flushes, faults, clean, ok_run>>

----------------------------------------------------------------------------
(* load_members_claims_to_database *)

\* the call starts: crosswalk loaded, eligibility query issued (test.py
\* iterates the cursor, update_member_claim.py materializes it in a list)
load_start(s, b) ==
  /\ pc \in {"idle", "done", "crashed"}
  /\ run < MaxRuns
  /\ strategy' = s /\ batch_size' = b
  /\ mbi_map' = get_mbi_crosswalk_map(crosswalk)
  /\ eligibility_docs' = eligibility
  /\ cursor' = IF s = "batched" THEN "open" ELSE "exhausted"
  /\ pos' = 0 /\ batch' = << >> /\ total_processed' = 0
  /\ pc' = "stream"
  /\ clock' = clock + 1
  /\ run' = run + 1 /\ run_start' = Append(run_start, clock')
  /\ flushes' = << >> /\ queries' = {} /\ fetched' = {} /\ clean' = TRUE
  /\ finds' = << >> /\ passed' = << >>
  /\ UNCHANGED <<enginevars, sources, staging, batchvars, ops, ops_pos, futures, ticks, faults,
                 history, ok_run>>

\* process_batch(batch, ...) is called: the batch, and the positions the
\* loop consumed its elements at, the last of them being position last
Handed(elements, last) ==
  [ batch |-> elements,
    pos |-> [j \in 1..Len(elements) |-> last - Len(elements) + j] ]

\* mutant: the crosswalk is loaded again at every record
load_iterate_reloads ==
  /\ pc = "stream"
  /\ pos < Len(eligibility_docs)
  /\ pos' = pos + 1
  /\ batch' = Append(batch, eligibility_docs[pos + 1])
  /\ pc' = IF Len(batch') >= batch_size THEN "process" ELSE "stream"
  /\ passed' = IF Len(batch') >= batch_size THEN Append(passed, Handed(batch', pos'))
                ELSE passed
  /\ mbi_map' = get_mbi_crosswalk_map(crosswalk)
  /\ UNCHANGED <<enginevars, sources, staging, strategy, batch_size, eligibility_docs,
                 cursor, total_processed, batchvars, ops, ops_pos, futures, clock,
                 ticks, faults, run, run_start, queries, fetched, history, finds, flushes, clean,
                 ok_run>>

\* one iteration of "for el in ...": append, and hand a full batch over
load_iterate ==
  /\ pc = "stream"
  /\ pos < Len(eligibility_docs)
  /\ pos' = pos + 1
  /\ batch' = Append(batch, eligibility_docs[pos + 1])
  /\ pc' = IF Len(batch') >= batch_size THEN "process" ELSE "stream"
  /\ passed' = IF Len(batch') >= batch_size THEN Append(passed, Handed(batch', pos'))
                ELSE passed
  /\ UNCHANGED <<enginevars, sources, staging, strategy, batch_size, mbi_map, eligibility_docs,
                 cursor, total_processed, batchvars, ops, ops_pos, futures, clock,
                 ticks, faults, run, run_start, queries, fetched, history, finds, flushes, clean,
                 ok_run>>

\* mutant: the records left when the loop ends are not processed
load_exhausted_drops_final ==
  /\ pc = "stream"
  /\ pos = Len(eligibility_docs)
  /\ pc' = "close"
  /\ passed' = passed
  /\ cursor' = "exhausted"
  /\ UNCHANGED <<enginevars, sources, staging, strategy, batch_size, mbi_map, eligibility_docs,
                 pos, batch, total_processed, batchvars, ops, ops_pos, futures,
                 clock, ticks, faults, run, run_start, queries, fetched, history, finds,
                 flushes, clean, ok_run>>

\* the loop ends: "if batch:" hands the final partial batch over
load_exhausted ==
  /\ pc = "stream"
  /\ pos = Len(eligibility_docs)
  /\ pc' = IF batch # << >> THEN "process" ELSE "close"
  /\ passed' = IF batch # << >> THEN Append(passed, Handed(batch, pos)) ELSE passed
  /\ cursor' = "exhausted"
  /\ UNCHANGED <<enginevars, sources, staging, strategy, batch_size, mbi_map, eligibility_docs,
                 pos, batch, total_processed, batchvars, ops, ops_pos, futures,
                 clock, ticks, faults, run, run_start, queries, fetched, history, finds,
                 flushes, clean, ok_run>>

\* client.close() and the completion log line
load_close ==
  /\ pc = "close"
  /\ pc' = "done"
  /\ cursor' = "closed"
  /\ history' = Append(history, [run |-> run, strategy |-> strategy,
                                 batch_size |-> batch_size,
                                 staging |-> staging, clean |-> clean])
  /\ UNCHANGED <<enginevars, sources, staging, strategy, batch_size, mbi_map, eligibility_docs,
                 pos, batch, total_processed, batchvars, ops, ops_pos, futures,
                 clock, ticks, faults, run, run_start, passed, queries, fetched, clean,
                 flushes, ok_run, finds>>

\* mutant: the loop forgets "batch = []"
AfterBatch_no_reset ==
  /\ total_processed' = total_processed + Len(batch)
  /\ batch' = batch
  /\ pc' = IF Len(batch) >= batch_size /\ pos < Len(eligibility_docs)
           THEN "stream" ELSE "close"

\* process_batch returned to its call site: inside the loop (a full batch)
\* the batch is reset and the loop goes on; after the loop the run closes
AfterBatch ==
  /\ total_processed' = total_processed + Len(batch)
  /\ IF Len(batch) >= batch_size
     THEN batch' = << >> /\ pc' = "stream"
     ELSE batch' = batch /\ pc' = "close"

\* eligibility position of batch element j
BatchPos(j) == pos - Len(batch) + j

----------------------------------------------------------------------------
(* test.process_batch: batched set-fetch *)

\* lines 196-206: translate the ids, one $in query per source
batched_fetch ==
  /\ pc = "process" /\ strategy = "batched"
  /\ \E outcome \in FetchOutcomes, dt \in TickChoices :
     LET mids == [j \in 1..Len(batch) |-> Str(batch[j].memberId)]
         mbis == [j \in 1..Len(batch) |-> MbiLookup(mbi_map, mids[j])]
         pids == [j \in 1..Len(batch) |-> PharmacyLookup(mbi_map, mids[j])]
     IN
     /\ queries' = queries \cup
          { [pos |-> BatchPos(j), member_id |-> mids[j],
             medical |-> mbis[j], pharmacy |-> pids[j]] : j \in 1..Len(batch) }
     /\ finds' = LogFinds(finds, ClaimFinds(outcome, Range(mbis), Range(pids), pos))
     /\ IF outcome = "ok"
        THEN    /\ member_ids' = mids
                /\ mbi_list' = mbis
                /\ medical_map' = batch_fetch_medical_claims(edps, mbis)
                /\ pharmacy_map' = batch_fetch_pharmacy_claims(pharmacy, pids)
                /\ now' = clock + dt /\ clock' = clock + dt /\ ticks' = ticks - dt
                /\ idx' = 1 /\ ops' = << >> /\ ops_pos' = << >>
                /\ pc' = "merge"
                /\ fetched' = fetched \cup { BatchPos(j) : j \in 1..Len(batch) }
                /\ UNCHANGED <<faults, clean>>
        ELSE    /\ dt = 0
                /\ pc' = "crashed"
                /\ faults' = faults - 1 /\ clean' = FALSE
                /\ UNCHANGED <<batchvars, ops, ops_pos, clock, ticks, fetched>>
  /\ UNCHANGED <<enginevars, sources, staging, strategy, batch_size, mbi_map, eligibility_docs,
                 cursor, pos, batch, total_processed, futures, run, run_start, passed,
                 history, flushes, ok_run>>

\* lines 208-239: merge batch element idx, flush a full group
batched_merge ==
  /\ pc = "merge"
  /\ idx <= Len(batch)
  /\ LET doc == BatchDoc(batch[idx], member_ids[idx], mbi_list[idx],
                         medical_map, pharmacy_map, now)
         group == Append(ops, UpsertOp(doc))
         group_pos == Append(ops_pos, BatchPos(idx))
     IN  IF Len(group) >= BatchFlushSize
         THEN /\ \E outcome \in FlushOutcomes(group) : Flush(group, group_pos, outcome)
              /\ ops' = << >> /\ ops_pos' = << >>
         ELSE /\ NoFlush
              /\ ops' = group /\ ops_pos' = group_pos
  /\ idx' = idx + 1
  /\ UNCHANGED <<enginevars, sources, loader, member_ids, mbi_list, medical_map, pharmacy_map,
                 now, futures, clock, ticks, ghosts>>

\* lines 241-243 and the return to the loader
batched_return ==
  /\ pc = "merge"
  /\ idx > Len(batch)
  /\ IF ops # << >>
     THEN \E outcome \in FlushOutcomes(ops) : Flush(ops, ops_pos, outcome)
     ELSE NoFlush
  /\ ops' = << >> /\ ops_pos' = << >>
  /\ AfterBatch
  /\ member_ids' = << >> /\ mbi_list' = << >>
  /\ medical_map' = EmptyMap /\ pharmacy_map' = EmptyMap
  /\ now' = 0 /\ idx' = 1
  /\ UNCHANGED <<enginevars, sources, strategy, batch_size, mbi_map, eligibility_docs, cursor,
                 pos, futures, clock, ticks, ghosts>>

----------------------------------------------------------------------------
(* update_member_claim.process_batch: concurrent per-member fetch *)

\* lines 174-179: one future per batch element
concurrent_submit ==
  /\ pc = "process" /\ strategy = "concurrent"
  /\ futures' = [j \in 1..Len(batch) |->
                   [pos |-> BatchPos(j), el |-> batch[j], state |-> "pending",
                    result |-> << >>]]
  /\ ops' = << >> /\ ops_pos' = << >>
  /\ pc' = "join"
  /\ UNCHANGED <<enginevars, sources, staging, strategy, batch_size, mbi_map, eligibility_docs,
                 cursor, pos, batch, total_processed, batchvars, clock, ticks,
                 faults, ghosts, flushes, clean, ok_run>>

\* a worker thread runs fetch_member_claims for future k: it returns the
\* merged document, or a query raises
task_run(k) ==
  /\ pc = "join"
  /\ futures[k].state = "pending"
  /\ \E outcome \in FetchOutcomes, dt \in TickChoices :
     LET el == futures[k].el
         member_id == Str(el.memberId)
     IN
     /\ queries' = queries \cup
          { [pos |-> futures[k].pos, member_id |-> member_id,
             medical |-> MbiLookup(mbi_map, member_id),
             pharmacy |-> PharmacyLookup(mbi_map, member_id)] }
     /\ finds' = LogFinds(finds,
                         ClaimFinds(outcome, {MbiLookup(mbi_map, member_id)},
                                    {PharmacyLookup(mbi_map, member_id)},
                                    futures[k].pos))
     /\ IF outcome = "ok"
        THEN    /\ futures' = [futures EXCEPT
                     ![k].state = "done",
                     ![k].result = <<fetch_member_claims(el, edps, pharmacy, mbi_map,
                                                         clock + dt)>>]
                /\ clock' = clock + dt /\ ticks' = ticks - dt
                /\ fetched' = fetched \cup {futures[k].pos}
                /\ UNCHANGED <<faults, clean>>
        ELSE    /\ dt = 0
                /\ futures' = [futures EXCEPT ![k].state = "raised"]
                /\ faults' = faults - 1 /\ clean' = FALSE
                /\ UNCHANGED <<clock, ticks, fetched>>
  /\ UNCHANGED <<enginevars, sources, staging, loader, batchvars, ops, ops_pos, run, run_start, passed,
                 history, flushes, ok_run>>

\* mutant: future.result() is called outside the try block
yield_raised_propagates(k) ==
  /\ ops' = ops /\ ops_pos' = ops_pos
  /\ pc' = "crashed"
  /\ NoFlush

\* mutant: the member of a raised future is fetched again in the loop and
\* its operation queued
yield_raised_retries(k) ==
  /\ ops' = Append(ops, UpsertOp(fetch_member_claims(futures[k].el, edps, pharmacy,
                                                     mbi_map, clock)))
  /\ ops_pos' = Append(ops_pos, futures[k].pos)
  /\ pc' = pc
  /\ NoFlush

\* what the as_completed loop does with a finished future whose result()
\* raised: log the error and go on
yield_raised(k) ==
  /\ ops' = ops /\ ops_pos' = ops_pos
  /\ pc' = pc
  /\ NoFlush

\* mutant: the buffer is not emptied after a flush ("ops = []" is missing)
concurrent_yield_keeps_buffer(k) ==
  /\ pc = "join"
  /\ futures[k].state \in {"done", "raised"}
  /\ futures' = [futures EXCEPT ![k].state = "yielded"]
  /\ IF futures[k].state = "done"
     THEN LET group == Append(ops, UpsertOp(futures[k].result[1]))
              group_pos == Append(ops_pos, futures[k].pos)
          IN  /\ pc' = pc
              /\ ops' = group /\ ops_pos' = group_pos
              /\ IF Len(group) >= ConcFlushSize
                 THEN \E outcome \in FlushOutcomes(group) :
                           Flush(group, group_pos, outcome)
                 ELSE NoFlush
     ELSE yield_raised(k)
  /\ UNCHANGED <<enginevars, sources, strategy, batch_size, mbi_map, eligibility_docs, cursor,
                 pos, batch, total_processed, batchvars, clock, ticks, run,
                 run_start, queries, fetched, history, finds, passed>>

\* lines 181-206: as_completed yields finished future k
concurrent_yield(k) ==
  /\ pc = "join"
  /\ futures[k].state \in {"done", "raised"}
  /\ futures' = [futures EXCEPT ![k].state = "yielded"]
  /\ IF futures[k].state = "done"
     THEN LET group == Append(ops, UpsertOp(futures[k].result[1]))
              group_pos == Append(ops_pos, futures[k].pos)
          IN  /\ pc' = pc
              /\ IF Len(group) >= ConcFlushSize
                 THEN /\ \E outcome \in FlushOutcomes(group) :
                           Flush(group, group_pos, outcome)
                      /\ ops' = << >> /\ ops_pos' = << >>
                 ELSE /\ NoFlush
                      /\ ops' = group /\ ops_pos' = group_pos
     ELSE yield_raised(k)
  /\ UNCHANGED <<enginevars, sources, strategy, batch_size, mbi_map, eligibility_docs, cursor,
                 pos, batch, total_processed, batchvars, clock, ticks, run,
                 run_start, queries, fetched, history, finds, passed>>

\* mutant: the operations still buffered when the loop ends are dropped
concurrent_return_no_final_flush ==
  /\ pc = "join"
  /\ \A k \in DOMAIN futures : futures[k].state = "yielded"
  /\ NoFlush
  /\ ops' = << >> /\ ops_pos' = << >>
  /\ futures' = << >>
  /\ AfterBatch
  /\ UNCHANGED <<enginevars, sources, strategy, batch_size, mbi_map, eligibility_docs, cursor,
                 pos, batchvars, clock, ticks, ghosts>>

\* the executor is joined; lines 208-209 and the return to the loader
concurrent_return ==
  /\ pc = "join"
  /\ \A k \in DOMAIN futures : futures[k].state = "yielded"
  /\ IF ops # << >>
     THEN \E outcome \in FlushOutcomes(ops) : Flush(ops, ops_pos, outcome)
     ELSE NoFlush
  /\ ops' = << >> /\ ops_pos' = << >>
  /\ futures' = << >>
  /\ AfterBatch
  /\ UNCHANGED <<enginevars, sources, strategy, batch_size, mbi_map, eligibility_docs, cursor,
                 pos, batchvars, clock, ticks, ghosts>>

----------------------------------------------------------------------------
(* Specification *)

Next ==
  \/ \E s \in Strategies, b \in 1..MaxBatchSize : load_start(s, b)
  \/ load_iterate
  \/ load_exhausted
  \/ load_close
  \/ batched_fetch
  \/ batched_merge
  \/ batched_return
  \/ concurrent_submit
  \/ \E k \in DOMAIN futures : task_run(k)
  \/ \E k \in DOMAIN futures : concurrent_yield(k)
  \/ concurrent_return

Spec == Init /\ [][Next]_vars

\* the steps of a started call: the interpreter runs the coordinating
\* thread and the pool threads until the call returns or raises; when a
\* call is started is up to the operator
RunStep ==
  \/ load_iterate
  \/ load_exhausted
  \/ load_close
  \/ batched_fetch
  \/ batched_merge
  \/ batched_return
  \/ concurrent_submit
  \/ \E k \in DOMAIN futures : task_run(k)
  \/ \E k \in DOMAIN futures : concurrent_yield(k)
  \/ concurrent_return

\* the pipeline with a started call always running on
SpecFair == Init /\ [][Next]_vars /\ WF_vars(RunStep)

\* the same pipeline with the wall clock seen to advance inside a run
InitClock ==
  \E el \in EligInputs :
    InitWith(el, << [MemberID |-> "A", MBI |-> "X"] >>, <<MedX, MedA, Med7>>,
             <<PharmB, PharmA, Pharm7>>, MaxFaults, MaxTicks)

SpecClock == InitClock /\ [][Next]_vars

\* the crosswalk collection as other writers may leave it
LiveCrosswalks ==
  { << >>,
    << [MemberID |-> "A", MBI |-> "X"] >>,
    << [MemberID |-> "A", MBI |-> "7"], [MemberID |-> "B", MBI |-> "X"] >> }

\* another process rewrites the crosswalk collection, at any time
crosswalk_update ==
  /\ \E cw \in LiveCrosswalks : cw # crosswalk /\ crosswalk' = cw
  /\ UNCHANGED <<enginevars, eligibility, edps, pharmacy, staging, loader, batchvars, ops,
                 futures, clock, ticks, faults, ghosts, flushes, clean, ops_pos,
                 ok_run>>

\* the pipeline running while the crosswalk collection changes
InitLive ==
  \E el \in SubSeqs(<<ElA, ElB, El7>>, MaxElig), cw \in LiveCrosswalks :
    InitWith(el, cw, <<MedX, MedA, Med7>>, <<PharmB, PharmA, Pharm7>>, 0, 0)

NextLive == Next \/ crosswalk_update

SpecLive == InitLive /\ [][NextLive]_vars

\* a second pharmacy claim of B
PharmB2 == ("Member ID" :> "B") @@ ("Product Label Name" :> "statin")

\* a second medical claim under X
MedX3 == { Leaf(<<"Member", "Subscriber_ID">>, "X"), Leaf(<<"Claim", "ClaimID">>, "c6") }

\* contents of the two claim sources at different times: claims are added
\* and removed from one to the next
ClaimVersions ==
  { [edps |-> <<MedX, MedA, Med7>>, pharmacy |-> <<PharmB, PharmA, Pharm7>>],
    [edps |-> <<MedA>>, pharmacy |-> <<PharmB, PharmB2>>],
    [edps |-> <<MedX, MedX3, MedA, Med7>>, pharmacy |-> << >>] }

\* the owners of the claim sources rewrite them between two runs
claims_update ==
  /\ pc = "done" /\ run < MaxRuns
  /\ \E v \in ClaimVersions :
       /\ v.edps # edps
       /\ edps' = v.edps /\ pharmacy' = v.pharmacy
  /\ UNCHANGED <<enginevars, eligibility, crosswalk, staging, loader, batchvars, ops,
                 futures, clock, ticks, faults, ghosts, flushes, clean, ops_pos, ok_run>>

\* the pipeline run again after the claim sources changed
InitSources ==
  \E el \in EligInputs, cw \in CrosswalkInputs, v \in ClaimVersions :
    InitWith(el, cw, v.edps, v.pharmacy, 0, 0)

NextSources == Next \/ claims_update

SpecSources == InitSources /\ [][NextSources]_vars

\* crosswalk documents: complete ones (two of them for A, one with an
\* integer MemberID), and ones lacking a side, holding None or ""
CrosswalkDocs ==
  { [MemberID |-> "A", MBI |-> "X"], [MemberID |-> "A", MBI |-> "Y"],
    [MemberID |-> "int:7", MBI |-> "X"], [MemberID |-> "B"], [MBI |-> "Z"],
    [MemberID |-> "B", MBI |-> ""], [MemberID |-> NULL, MBI |-> "Z"] }

\* the crosswalk loader alone, over every crosswalk collection of at most
\* MaxCrosswalk documents
InitCrosswalkMap ==
  \E n \in 0..MaxCrosswalk : \E cw \in [1..n -> CrosswalkDocs] :
    InitWith(<<ElA>>, cw, <<MedX, MedA, Med7>>, <<PharmB, PharmA, Pharm7>>, 0, 0)

NextCrosswalkMap == \E s \in Strategies, b \in 1..MaxBatchSize : load_start(s, b)

SpecCrosswalkMap == InitCrosswalkMap /\ [][NextCrosswalkMap]_vars

\* the scenario of the design's testable properties: eligibility {A, B, C}
\* in any storage order, crosswalk {A -> X}, medical claims under X and C,
\* pharmacy claims under B, no failure injected
MedX2 == { Leaf(<<"Member", "Subscriber_ID">>, "X"), Leaf(<<"Claim", "ClaimID">>, "c5") }

Permutations3(a, b, c) ==
  { <<a, b, c>>, <<a, c, b>>, <<b, a, c>>, <<b, c, a>>, <<c, a, b>>, <<c, b, a>> }

InitScenario ==
  \E el \in Permutations3(ElA, ElB, ElC) :
    InitWith(el, << [MemberID |-> "A", MBI |-> "X"] >>, <<MedX, MedC, MedX2>>,
             <<PharmB>>, 0, 0)

SpecScenario == InitScenario /\ [][Next]_vars

----------------------------------------------------------------------------
(* Suspect engine: values exchanged with the inference service *)

\* Python values json.loads can return: a list of values, a dict, a scalar
List(items) == [type |-> "list", items |-> items]
Dict(doc) == [type |-> "dict", doc |-> doc]
Scalar(type, value) == [type |-> type, value |-> value]

\* a suspect object as the prompt asks for it
Suspect(member_id) ==
  [ memberId |-> member_id, suspectType |-> "chronic",
    suspectDiagnosis |-> "E11.9", confidenceScore |-> "0.85",
    priority |-> "high", evidence |-> "metformin fills",
    suggestedAction |-> "review" ]

SuspectFields == DOMAIN Suspect("A")

\* chat.completions.create raised
API_ERROR == "<APIError>"

\* message contents the service is seen to return; NULL is a missing content
LLMOutputs ==
  { "~~~json [] ~~~", "[]", "[suspect A]", "{suspects: []}", "5",
    "[1]", "[{note}]", "[{memberId: A, error}]", "[suspect A, 1]", NULL }

\* what chat.completions.create does: raise, or return a message
LLMOutcomes == LLMOutputs \cup {API_ERROR}

\* json.loads(text): the value, or JSONDecodeError
json_loads(text) ==
  CASE text = "[]" -> [raised |-> FALSE, value |-> List(<< >>)]
    [] text = "[suspect A]" ->
         [raised |-> FALSE, value |-> List(<<Dict(Suspect("A"))>>)]
    [] text = "{suspects: []}" ->
         [raised |-> FALSE, value |-> Dict([suspects |-> "[]"])]
    [] text = "5" -> [raised |-> FALSE, value |-> Scalar("int", 5)]
    [] text = "[1]" -> [raised |-> FALSE, value |-> List(<<Scalar("int", 1)>>)]
    [] text = "[{note}]" ->
         [raised |-> FALSE,
          value |-> List(<<Dict([note |-> "no suspects found"])>>)]
    [] text = "[{memberId: A, error}]" ->
         [raised |-> FALSE,
          value |-> List(<<Dict([memberId |-> "A", error |-> "insufficient data"])>>)]
    [] text = "[suspect A, 1]" ->
         [raised |-> FALSE,
          value |-> List(<<Dict(Suspect("A")), Scalar("int", 1)>>)]
    [] OTHER -> [raised |-> TRUE, value |-> List(<< >>)]

\* call_llm_for_suspects (both programs): the parsed content; [] when the
\* call raises, when the content is None (TypeError in json.loads) and when
\* the content is no JSON
call_llm_for_suspects(outcome) ==
  IF outcome = API_ERROR \/ outcome = NULL THEN List(<< >>)
  ELSE IF json_loads(outcome).raised THEN List(<< >>)
  ELSE json_loads(outcome).value

\* bool(value)
PyTruthy(v) ==
  CASE v.type = "list" -> Len(v.items) > 0
    [] v.type = "dict" -> DOMAIN v.doc # {}
    [] v.type = "int" -> v.value # 0
    [] OTHER -> FALSE

\* Collection.insert_many(documents): TypeError unless documents is a
\* non-empty list of dicts, raised before anything is sent; the ObjectId
\* the store adds to each document is left out
insert_many(coll, documents) ==
  IF /\ documents.type = "list" /\ Len(documents.items) > 0
     /\ \A j \in DOMAIN documents.items : documents.items[j].type = "dict"
  THEN [coll |-> coll \o [j \in DOMAIN documents.items |-> documents.items[j].doc],
        written |-> Len(documents.items)]
  ELSE [coll |-> coll, written |-> 0]

\* main.save_suspects_to_mongo: nothing for a falsy value, else insert_many
\* with every exception logged and swallowed
save_suspects_insert(coll, value) ==
  IF ~PyTruthy(value) THEN [coll |-> coll, written |-> 0]
  ELSE insert_many(coll, value)

\* UpdateOne of update_suspect_coll.save_suspects_to_mongo
SuspectUpsertOp(s, t) ==
  [ filter      |-> [memberId |-> s.memberId],
    set         |-> [k \in DOMAIN s \cup {"updatedAt"} |->
                       IF k = "updatedAt" THEN t ELSE s[k]],
    setOnInsert |-> [createdAt |-> t],
    upsert      |-> TRUE ]

\* the operations list built by the loop over suspects: objects without a
\* truthy memberId are skipped
RECURSIVE SuspectOperations(_, _)
SuspectOperations(items, t) ==
  IF items = << >> THEN << >>
  ELSE (IF Truthy(Get(Head(items).doc, "memberId"))
        THEN <<SuspectUpsertOp(Head(items).doc, t)>> ELSE << >>)
       \o SuspectOperations(Tail(items), t)

\* update_suspect_coll.save_suspects_to_mongo: nothing for a falsy value;
\* iterating a non-iterable raises TypeError and s.get on a non-dict element
\* (also a key of a dict) raises AttributeError, both before bulk_write and
\* both swallowed; else one unordered bulk_write of the operations
save_suspects_upsert(coll, value, t) ==
  IF ~PyTruthy(value) THEN [coll |-> coll, written |-> 0]
  ELSE IF value.type # "list" THEN [coll |-> coll, written |-> 0]
  ELSE IF \E j \in DOMAIN value.items : value.items[j].type # "dict"
  THEN [coll |-> coll, written |-> 0]
  ELSE LET operations == SuspectOperations(value.items, t)
       IN  [coll |-> bulk_write(coll, operations, FALSE, {}),
            written |-> Len(operations)]

----------------------------------------------------------------------------
(* Suspect engine: main.load_members_with_claims_from_docs *)

\* projection of the medical query of main.py
MainMedicalProjection ==
  { <<"Diagnosis", "Diag_Codes">>,
    <<"ServiceLine", "LXServiceNo">>, <<"ServiceLine", "BilledCPT_Code">>,
    <<"ServiceLine", "Billed_CPTDesc">>, <<"ServiceLine", "Line_SvcDate">>,
    <<"Claim", "ClaimID">>, <<"Claim", "POS">>, <<"Type_of_Bill">>,
    <<"Provider", "BillProv_NPI">>, <<"Provider", "BillProv_LastName">>,
    <<"Member", "Subscriber_ID">>, <<"Member", "Subscriber_DOB">>,
    <<"Member", "Subscriber_Gender">> }

\* the strftime call found no such attribute on the value
ATTRIBUTE_ERROR == "<AttributeError>"

\* pc.get("Fill Date").strftime("%Y-%m-%d") if pc.get("Fill Date") else None
MainFillDate(val) ==
  IF ~Truthy(val) THEN NULL
  ELSE IF IsDatetime(val) THEN Strftime(val)
  ELSE ATTRIBUTE_ERROR

\* one element of the pharmacy_claims list comprehension
MainPharmacyClaim(claim) ==
  [ memberId          |-> Get(claim, "Member ID"),
    ndc               |-> Str(Get(claim, "NDC")),
    drugName          |-> Get(claim, "Product Label Name"),
    fillDate          |-> MainFillDate(Get(claim, "Fill Date")),
    daysSupply        |-> Get(claim, "Days Supply"),
    quantityDispensed |-> Get(claim, "Metric Quantity"),
    prescriberNPI     |-> Get(claim, "Prescriber ID"),
    prescriberName    |-> Get(claim, "Prescriber Name"),
    totalBilled       |-> Get(claim, "Total Billed") ]

\* the member built for one eligibility document: both queries filter on
\* the raw memberId
MainMember(el, medical_coll, pharmacy_coll) ==
  LET medical == SelectSeq(medical_coll,
                           LAMBDA c : LeafGet(c, SubscriberPath) = el.memberId)
      pharm == SelectSeq(pharmacy_coll,
                         LAMBDA c : Get(c, "Member ID") = el.memberId)
  IN  [ memberId       |-> el.memberId,
        eligibility    |-> el,
        medicalClaims  |-> [j \in 1..Len(medical) |->
                              Project(medical[j], MainMedicalProjection)],
        pharmacyClaims |-> [j \in 1..Len(pharm) |->
                              MainPharmacyClaim(ProjectFlat(pharm[j], PharmacyProjection))] ]

\* load_members_with_claims_from_docs: the members list, when no element of
\* a list comprehension raises
load_members_with_claims_from_docs(docs, medical_coll, pharmacy_coll) ==
  [j \in 1..Len(docs) |-> MainMember(docs[j], medical_coll, pharmacy_coll)]

\* some fill date of the members raised
FillDateRaised(members) ==
  \E j \in DOMAIN members : \E c \in DOMAIN members[j].pharmacyClaims :
    members[j].pharmacyClaims[c].fillDate = ATTRIBUTE_ERROR

----------------------------------------------------------------------------
(* Suspect engine: main.process_all_members *)

\* process_all_members(batch_size) of main.py starts: the eligibility cursor
\* is opened
main_start(b) ==
  /\ engine_pc = "idle"
  /\ engine' = "main" /\ engine_batch_size' = b
  /\ engine_docs' = eligibility /\ engine_pos' = 0 /\ engine_batch' = << >>
  /\ engine_total_processed' = 0
  /\ engine_pc' = "stream"
  /\ UNCHANGED <<pages, sources, staging, loadervars, faults, member_suspects, max_workers,
                 members_with_claims, llm_output_text, suspects, total_docs, skip,
                 engine_futures, llm_log>>

\* for el in cursor: batch.append(el); a full batch is processed
main_iterate ==
  /\ engine = "main" /\ engine_pc = "stream"
  /\ engine_pos < Len(engine_docs)
  /\ engine_pos' = engine_pos + 1
  /\ engine_batch' = Append(engine_batch, engine_docs[engine_pos + 1])
  /\ engine_pc' = IF Len(engine_batch) + 1 >= engine_batch_size THEN "load" ELSE "stream"
  /\ UNCHANGED <<pages, sources, staging, loadervars, faults, member_suspects, engine,
                 engine_batch_size, max_workers, engine_docs, members_with_claims,
                 llm_output_text, suspects, total_docs, skip, engine_futures,
                 engine_total_processed, llm_log>>

\* the cursor is exhausted: the remaining members are processed, or the
\* function returns
main_exhausted ==
  /\ engine = "main" /\ engine_pc = "stream"
  /\ engine_pos = Len(engine_docs)
  /\ engine_pc' = IF engine_batch # << >> THEN "load" ELSE "done"
  /\ UNCHANGED <<pages, sources, staging, loadervars, faults, member_suspects, engine,
                 engine_batch_size, max_workers, engine_docs, engine_pos, engine_batch,
                 members_with_claims, llm_output_text, suspects, total_docs, skip,
                 engine_futures, engine_total_processed, llm_log>>

\* members_with_claims = load_members_with_claims_from_docs(batch); an
\* exception of the list comprehension leaves process_all_members
main_load ==
  /\ engine = "main" /\ engine_pc = "load"
  /\ LET members == load_members_with_claims_from_docs(engine_batch, edps, pharmacy)
     IN  IF FillDateRaised(members)
         THEN /\ engine_pc' = "crashed"
              /\ UNCHANGED members_with_claims
         ELSE /\ engine_pc' = "llm"
              /\ members_with_claims' = members
  /\ UNCHANGED <<pages, sources, staging, loadervars, faults, member_suspects, engine,
                 engine_batch_size, max_workers, engine_docs, engine_pos, engine_batch,
                 llm_output_text, suspects, total_docs, skip, engine_futures,
                 engine_total_processed, llm_log>>

\* suspects = call_llm_for_suspects(members_with_claims)
main_llm ==
  /\ engine = "main" /\ engine_pc = "llm"
  /\ \E outcome \in LLMOutcomes :
       /\ llm_output_text' = outcome
       /\ suspects' = call_llm_for_suspects(outcome)
  /\ engine_pc' = "save"
  /\ UNCHANGED <<pages, sources, staging, loadervars, faults, member_suspects, engine,
                 engine_batch_size, max_workers, engine_docs, engine_pos, engine_batch,
                 members_with_claims, total_docs, skip, engine_futures,
                 engine_total_processed, llm_log>>

\* save_suspects_to_mongo(suspects); total_processed += len(batch); batch = []
main_save ==
  /\ engine = "main" /\ engine_pc = "save"
  /\ LET saved == save_suspects_insert(member_suspects, suspects)
     IN  /\ member_suspects' = saved.coll
         /\ llm_log' = Append(llm_log, [response |-> llm_output_text,
                                        written |-> saved.written])
  /\ engine_total_processed' = engine_total_processed + Len(engine_batch)
  /\ engine_batch' = << >>
  /\ engine_pc' = "stream"
  /\ UNCHANGED <<pages, sources, staging, loadervars, faults, engine, engine_batch_size,
                 max_workers, engine_docs, engine_pos, members_with_claims,
                 llm_output_text, suspects, total_docs, skip, engine_futures>>

----------------------------------------------------------------------------
(* Suspect engine: update_suspect_coll.process_all_members *)

\* {"pharmacyClaims": {"$ne": []}, "medicalClaims": {"$ne": []}}
StagingFilter(doc) == Len(doc.pharmacyClaims) > 0 /\ Len(doc.medicalClaims) > 0

\* mutant: the page query forgets .skip(skip)
load_members_from_staging_ignores_skip(coll, skip_arg, limit) ==
  LET matching == SelectSeq(coll, StagingFilter)
      n == IF Len(matching) < limit THEN Len(matching) ELSE limit
  IN  [j \in 1..n |->
         ProjectFlat(matching[j], DOMAIN matching[j] \ {"_id", "updatedAt", "createdAt"})]

\* load_members_from_staging(skip, limit), when the query succeeds
load_members_from_staging(coll, skip_arg, limit) ==
  LET matching == SelectSeq(coll, StagingFilter)
      n == IF Len(matching) - skip_arg < limit THEN Len(matching) - skip_arg ELSE limit
  IN  [j \in 1..n |->
         ProjectFlat(matching[skip_arg + j],
                     DOMAIN matching[skip_arg + j] \ {"_id", "updatedAt", "createdAt"})]

\* process_all_members(batch_size, max_workers) of update_suspect_coll.py
\* starts: the matching staging documents are counted
update_start(b, w) ==
  /\ engine_pc = "idle"
  /\ engine' = "update_suspect_coll" /\ engine_batch_size' = b /\ max_workers' = w
  /\ total_docs' = Len(SelectSeq(staging, StagingFilter))
  /\ skip' = 0 /\ engine_futures' = << >> /\ engine_total_processed' = 0
  /\ pages' = << >>
  /\ engine_pc' = "page"
  /\ UNCHANGED <<sources, staging, loadervars, faults, member_suspects, engine_docs,
                 engine_pos, engine_batch, members_with_claims, llm_output_text,
                 suspects, llm_log>>

\* one turn of the while loop: a page is loaded ([] when the query raises)
\* and submitted; an empty page ends the loop, more than max_workers * 3
\* futures are joined before the next page
update_submit ==
  /\ engine = "update_suspect_coll" /\ engine_pc = "page"
  /\ skip < total_docs
  /\ \E outcome \in {"ok"} \cup (IF faults > 0 THEN {"raise"} ELSE {}) :
       LET members == IF outcome = "raise" THEN << >>
                      ELSE load_members_from_staging(staging, skip, engine_batch_size)
       IN  /\ faults' = IF outcome = "raise" THEN faults - 1 ELSE faults
           /\ pages' = Append(pages, [skip |-> skip, members |-> members,
                                      raised |-> outcome = "raise"])
           /\ IF members = << >>
              THEN /\ engine_pc' = "final"
                   /\ UNCHANGED <<engine_futures, skip>>
              ELSE /\ engine_futures' =
                        Append(engine_futures,
                               [members |-> members, state |-> "queued",
                                output |-> NULL, suspects |-> List(<< >>)])
                   /\ skip' = skip + engine_batch_size
                   /\ engine_pc' = IF Len(engine_futures) + 1 > max_workers * 3
                                   THEN "drain" ELSE "page"
  /\ UNCHANGED <<sources, staging, loadervars, member_suspects, engine,
                 engine_batch_size, max_workers, engine_docs, engine_pos, engine_batch,
                 members_with_claims, llm_output_text, suspects, total_docs,
                 engine_total_processed, llm_log>>

\* the while condition fails
update_loop_end ==
  /\ engine = "update_suspect_coll" /\ engine_pc = "page"
  /\ skip >= total_docs
  /\ engine_pc' = "final"
  /\ UNCHANGED <<pages, sources, staging, loadervars, faults, member_suspects, engine,
                 engine_batch_size, max_workers, engine_docs, engine_pos, engine_batch,
                 members_with_claims, llm_output_text, suspects, total_docs, skip,
                 engine_futures, engine_total_processed, llm_log>>

\* a pool thread takes the oldest queued task and runs process_batch up to
\* the return of call_llm_for_suspects
process_batch_call(k, outcome) ==
  /\ engine = "update_suspect_coll"
  /\ engine_futures[k].state = "queued"
  /\ \A j \in 1..(k - 1) : engine_futures[j].state # "queued"
  /\ Cardinality({ j \in DOMAIN engine_futures : engine_futures[j].state = "called" })
       < max_workers
  /\ engine_futures' = [engine_futures EXCEPT
                          ![k].state = "called", ![k].output = outcome,
                          ![k].suspects = call_llm_for_suspects(outcome)]
  /\ UNCHANGED <<pages, sources, staging, loadervars, faults, member_suspects, engine, engine_pc,
                 engine_batch_size, max_workers, engine_docs, engine_pos, engine_batch,
                 members_with_claims, llm_output_text, suspects, total_docs, skip,
                 engine_total_processed, llm_log>>

\* the service answers with any of the outcomes
process_batch_llm(k) == \E outcome \in LLMOutcomes : process_batch_call(k, outcome)

\* the thread runs save_suspects_to_mongo(suspects) and the task returns
process_batch_save(k) ==
  /\ engine = "update_suspect_coll"
  /\ engine_futures[k].state = "called"
  /\ LET saved == save_suspects_upsert(member_suspects, engine_futures[k].suspects, clock)
     IN  /\ member_suspects' = saved.coll
         /\ llm_log' = Append(llm_log, [response |-> engine_futures[k].output,
                                        written |-> saved.written])
  /\ engine_futures' = [engine_futures EXCEPT ![k].state = "done"]
  /\ UNCHANGED <<pages, sources, staging, loadervars, faults, engine, engine_pc,
                 engine_batch_size, max_workers, engine_docs, engine_pos, engine_batch,
                 members_with_claims, llm_output_text, suspects, total_docs, skip,
                 engine_total_processed>>

\* sum of f.result() over the futures
RECURSIVE SumResults(_)
SumResults(fs) ==
  IF fs = << >> THEN 0 ELSE Len(Head(fs).members) + SumResults(Tail(fs))

\* for f in as_completed(futures): total_processed += f.result(), inside
\* the loop (then futures = []) and after it (then the executor shuts down)
update_join ==
  /\ engine = "update_suspect_coll" /\ engine_pc \in {"drain", "final"}
  /\ \A j \in DOMAIN engine_futures : engine_futures[j].state = "done"
  /\ engine_total_processed' = engine_total_processed + SumResults(engine_futures)
  /\ engine_futures' = << >>
  /\ engine_pc' = IF engine_pc = "drain" THEN "page" ELSE "done"
  /\ UNCHANGED <<pages, sources, staging, loadervars, faults, member_suspects, engine,
                 engine_batch_size, max_workers, engine_docs, engine_pos, engine_batch,
                 members_with_claims, llm_output_text, suspects, total_docs, skip,
                 llm_log>>

----------------------------------------------------------------------------
(* Suspect engine: specification *)

\* a staging document as the loaders write it
Staged(member_id, medical, pharm) ==
  [ memberId |-> member_id, eligibility |-> ElB, medicalClaims |-> medical,
    pharmacyClaims |-> pharm, updatedAt |-> 1, createdAt |-> 1 ]

\* staging documents in storage order: the second has no medical claim
StagingMaster ==
  << Staged("A", <<MedA>>, <<NormalizePharmacy(PharmA, "A")>>),
     Staged("B", << >>, <<NormalizePharmacy(PharmB, "B")>>),
     Staged("C", <<MedC>>, <<NormalizePharmacy(PharmB, "C")>>),
     Staged("D", <<MedX>>, <<NormalizePharmacy(PharmB, "D")>>),
     Staged("E", <<Med7>>, <<NormalizePharmacy(Pharm7, "E")>>) >>

\* the engine before its run, over an eligibility collection or over a
\* staging collection
InitEngine ==
  /\ \E el \in EligInputs, n \in 0..MaxStaged :
       /\ el = << >> \/ n = 0
       /\ eligibility = el
       /\ staging = SubSeq(StagingMaster, 1,
                            IF n < Len(StagingMaster) THEN n ELSE Len(StagingMaster))
  /\ crosswalk = << >> /\ edps = <<MedX, MedA, Med7>>
  /\ pharmacy = <<PharmB, PharmA, Pharm7>>
  /\ EngineIdle
  /\ pc = "idle" /\ strategy = "batched" /\ batch_size = 1
  /\ mbi_map = EmptyMap /\ eligibility_docs = << >> /\ cursor = "none" /\ pos = 0
  /\ batch = << >> /\ total_processed = 0
  /\ member_ids = << >> /\ mbi_list = << >>
  /\ medical_map = EmptyMap /\ pharmacy_map = EmptyMap
  /\ now = 0 /\ idx = 1 /\ ops = << >> /\ futures = << >>
  /\ clock = 1 /\ ticks = 0 /\ faults = MaxFaults
  /\ run = 0 /\ run_start = << >> /\ flushes = << >> /\ queries = {}
  /\ passed = << >>
  /\ fetched = {} /\ ops_pos = << >> /\ clean = TRUE /\ history = << >>
  /\ ok_run = EmptyMap /\ finds = << >>

NextEngine ==
  \/ \E b \in 1..MaxBatchSize : main_start(b)
  \/ main_iterate
  \/ main_exhausted
  \/ main_load
  \/ main_llm
  \/ main_save
  \/ \E b \in 1..MaxBatchSize, w \in 1..MaxWorkers : update_start(b, w)
  \/ update_submit
  \/ update_loop_end
  \/ \E k \in DOMAIN engine_futures : process_batch_llm(k)
  \/ \E k \in DOMAIN engine_futures : process_batch_save(k)
  \/ update_join

SpecEngine == InitEngine /\ [][NextEngine]_vars

\* update_suspect_coll.py alone, over a staging collection; the main
\* thread and the pool threads keep running once the call has started, and
\* every call to the service returns
InitPaging == InitEngine /\ eligibility = << >>

\* the service's outcomes the paging is followed under: a valid answer, an
\* answer that is not a list, an API error
PagingOutcomes == {"[suspect A]", "5", API_ERROR}

PagingStep ==
  \/ update_submit
  \/ update_loop_end
  \/ \E k \in DOMAIN engine_futures, outcome \in PagingOutcomes :
       process_batch_call(k, outcome)
  \/ \E k \in DOMAIN engine_futures : process_batch_save(k)
  \/ update_join

NextPaging ==
  \/ \E b \in 1..MaxBatchSize, w \in 1..MaxWorkers : update_start(b, w)
  \/ PagingStep

SpecPaging == InitPaging /\ [][NextPaging]_vars /\ WF_vars(PagingStep)

----------------------------------------------------------------------------
(* Vocabulary of the properties *)

\* a document without some of its fields
Without(doc, fields) == [k \in (DOMAIN doc) \ fields |-> doc[k]]

\* the documents of a collection, some fields aside
DocSet(coll, aside) == { Without(coll[j], aside) : j \in DOMAIN coll }

\* the staging documents of a member
DocsOf(coll, m) == { j \in DOMAIN coll : coll[j].memberId = m }

\* the member ids of the eligibility source, as the pipeline keys them
ElMembers == { Str(eligibility[j].memberId) : j \in DOMAIN eligibility }

\* crosswalk documents that translate member m
CrosswalkEntries(m) ==
  { j \in DOMAIN crosswalk :
      /\ "MemberID" \in DOMAIN crosswalk[j] /\ "MBI" \in DOMAIN crosswalk[j]
      /\ Truthy(crosswalk[j].MemberID) /\ Truthy(crosswalk[j].MBI)
      /\ Str(crosswalk[j].MemberID) = m }

\* the external id of member m: its last crosswalk entry, or m itself
Translated(m) ==
  IF CrosswalkEntries(m) = {} THEN m
  ELSE LET j == CHOOSE x \in CrosswalkEntries(m) : \A y \in CrosswalkEntries(m) : y <= x
       IN  crosswalk[j].MBI

\* a complete run just ended
RunDone == pc = "done"

----------------------------------------------------------------------------
(* C1: uniqueness of the staging document *)

\* C1 as stated: after any number of complete runs, every memberId of the
\* eligibility source has exactly one staging document.
C1_ExactlyOneAfterRuns ==
  RunDone => \A m \in ElMembers : Cardinality(DocsOf(staging, m)) = 1

\* C1 as amended: the staging store never holds two documents with the same
\* memberId; a member has a document exactly when some run applied an upsert
\* for it; and after a complete run in which no fetch and no bulk write
\* failed every memberId of the eligibility source has exactly one document.
C1_AtMostOneAndOneIfWritten ==
  /\ \A i, j \in DOMAIN staging : staging[i].memberId = staging[j].memberId => i = j
  /\ \A m \in ElMembers : (DocsOf(staging, m) # {}) <=> (m \in DOMAIN ok_run)
  /\ (RunDone /\ clean) => \A m \in ElMembers : Cardinality(DocsOf(staging, m)) = 1

\* two complete runs over an eligibility source with a repeated member, the
\* second one with a failure that left the store unchanged for nobody new
C1_Witness ==
  /\ RunDone /\ Len(history) = 2
  /\ Len(eligibility) > Cardinality(ElMembers)
  /\ \A m \in ElMembers : Cardinality(DocsOf(staging, m)) = 1

----------------------------------------------------------------------------
(* C2: idempotence of a second run *)

SameStrategyTwice(r) ==
  /\ r + 1 \in DOMAIN history
  /\ history[r + 1].run = history[r].run + 1
  /\ history[r + 1].strategy = history[r].strategy

\* eligibility records that share a memberId are identical
NoConflictingRecords ==
  \A i, j \in DOMAIN eligibility :
    Str(eligibility[i].memberId) = Str(eligibility[j].memberId)
      => eligibility[i] = eligibility[j]

----------------------------------------------------------------------------
(* C3: createdAt and updatedAt *)

\* timestamp t was read during run r
ReadInRun(t, r) ==
  /\ r \in DOMAIN run_start
  /\ run_start[r] <= t
  /\ (r + 1 \in DOMAIN run_start => t < run_start[r + 1])

C3_UpdatedAtOfLastWrite ==
  \A j \in DOMAIN staging :
    /\ staging[j].memberId \in DOMAIN ok_run
    /\ ReadInRun(staging[j].updatedAt, ok_run[staging[j].memberId])

C3_CreatedAtKept ==
  \A j \in DOMAIN staging :
    /\ j \in DOMAIN staging'
    /\ staging'[j].memberId = staging[j].memberId
    /\ staging'[j].createdAt = staging[j].createdAt

\* C3: a written document keeps its createdAt in every step, and its
\* updatedAt is always a timestamp read during the most recent run that
\* applied an upsert for its member (a run whose fetch or write failed for
\* the member leaves it alone).
C3_Timestamps == [] C3_UpdatedAtOfLastWrite /\ [][C3_CreatedAtKept]_vars

\* after two runs: one document rewritten by the second run, and one whose
\* second-run write failed and that still carries the first run's updatedAt
C3_Witness ==
  /\ RunDone /\ Len(history) = 2
  /\ \E i, j \in DOMAIN staging :
       /\ staging[i].createdAt < run_start[2] /\ run_start[2] <= staging[i].updatedAt
       /\ staging[j].updatedAt < run_start[2]

----------------------------------------------------------------------------
(* C4: crosswalk fallback *)

QueriedPositions == { q.pos : q \in queries }

\* every batch element past its fetch step has been queried, a clean run
\* fetched every record, and a complete run queried every record
NoMemberSkipped ==
  /\ pc = "merge" => \A j \in 1..Len(batch) : BatchPos(j) \in QueriedPositions
  /\ \A k \in DOMAIN futures :
       futures[k].state # "pending" => futures[k].pos \in QueriedPositions
  /\ RunDone => QueriedPositions = 1..Len(eligibility_docs)
  /\ (RunDone /\ clean) => fetched = 1..Len(eligibility_docs)

\* C4 as stated: both claim queries of a member use the crosswalk value when
\* the crosswalk has an entry and the raw memberId otherwise, and no member
\* is skipped.
C4_ClaimsQueriedUnderTranslatedId ==
  /\ \A q \in queries :
       /\ q.medical = Translated(q.member_id)
       /\ q.pharmacy = Translated(q.member_id)
  /\ NoMemberSkipped

\* C4 as amended: the medical-claims query of a member uses the crosswalk
\* value when the crosswalk has an entry and the raw memberId otherwise; the
\* pharmacy-claims query always uses the raw memberId; no member is skipped.
C4_MedicalTranslatedPharmacyRaw ==
  /\ \A q \in queries :
       /\ q.medical = Translated(q.member_id)
       /\ q.pharmacy = q.member_id
  /\ NoMemberSkipped

\* one run queried a translated member and a member without crosswalk entry
C4_Witness ==
  \E q1, q2 \in queries :
    /\ CrosswalkEntries(q1.member_id) # {} /\ q1.medical # q1.member_id
    /\ CrosswalkEntries(q2.member_id) = {} /\ q2.medical = q2.member_id

----------------------------------------------------------------------------
(* C5: the A, B, C scenario *)

ClaimIdPath == P(<<"Claim", "ClaimID">>)

\* the source medical claims stored under an id, in storage order
ClaimsUnder(id) == SelectSeq(edps, LAMBDA c : LeafGet(c, SubscriberPath) = id)

\* a merged claim list holds exactly the given source claims, each as a
\* projection of its source document
HoldsClaims(merged, source) ==
  /\ Len(merged) = Len(source)
  /\ \A k \in 1..Len(source) :
       /\ merged[k] \subseteq source[k]
       /\ LeafGet(merged[k], ClaimIdPath) = LeafGet(source[k], ClaimIdPath)
       /\ LeafGet(merged[k], SubscriberPath) = LeafGet(source[k], SubscriberPath)

\* the canonical form of the one pharmacy claim of B
ExpectedPharmB ==
  [ memberId |-> "B", ndc |-> "7", drugName |-> NULL, fillDate |-> "2024-01-05",
    daysSupply |-> NULL, quantityDispensed |-> NULL, prescriberNPI |-> NULL,
    prescriberName |-> NULL, totalBilled |-> NULL ]

\* C5: in the scenario, one run leaves doc(A) with the claims of X and no
\* pharmacy claim, doc(B) with no medical claim and the pharmacy claims of B,
\* doc(C) with the claims of C and no pharmacy claim.
C5_ScenarioResult ==
  RunDone =>
    \E a, b, c \in DOMAIN staging :
      /\ Len(staging) = 3
      /\ staging[a].memberId = "A" /\ staging[b].memberId = "B"
      /\ staging[c].memberId = "C"
      /\ Len(ClaimsUnder("X")) = 2
      /\ HoldsClaims(staging[a].medicalClaims, ClaimsUnder("X"))
      /\ staging[a].pharmacyClaims = << >>
      /\ staging[b].medicalClaims = << >>
      /\ staging[b].pharmacyClaims = <<ExpectedPharmB>>
      /\ HoldsClaims(staging[c].medicalClaims, ClaimsUnder("C"))
      /\ staging[c].pharmacyClaims = << >>

\* the first run of the scenario is complete, by the concurrent pipeline
C5_Witness ==
  /\ RunDone /\ Len(history) = 1 /\ strategy = "concurrent"
  /\ Len(staging) = 3 /\ total_processed = 3

----------------------------------------------------------------------------
(* C6: equivalence of the two strategies *)

\* runs r and r+1 are consecutive, complete, without failure, and used the
\* two different strategies
BothStrategiesInTurn(r) ==
  /\ r + 1 \in DOMAIN history
  /\ history[r + 1].run = history[r].run + 1
  /\ history[r + 1].strategy # history[r].strategy
  /\ history[r].clean /\ history[r + 1].clean

\* C6: over the same sources the batched and the concurrent pipeline write
\* the same documents, timestamps aside (stated for eligibility sources
\* whose records of one member are identical).
C6_StrategiesWriteSameDocuments ==
  \A r \in DOMAIN history :
    (BothStrategiesInTurn(r) /\ NoConflictingRecords) =>
      DocSet(history[r].staging, {"updatedAt", "createdAt"})
        = DocSet(history[r + 1].staging, {"updatedAt", "createdAt"})

----------------------------------------------------------------------------
(* C7: partial bulk failure *)

LastFlush == flushes[Len(flushes)]

\* positions of a flushed group the store did not reject
ValidOps(f) == (DOMAIN f.ops) \ f.outcome.rejected

\* the last valid operation of the group on the member of operation k
LastValidFor(f, k) ==
  CHOOSE x \in ValidOps(f) :
    /\ f.ops[x].filter = f.ops[k].filter
    /\ \A y \in ValidOps(f) : f.ops[y].filter = f.ops[k].filter => y <= x

\* C7: when the store rejects some operations of a flush group, every other
\* operation of the group is applied: its member's staging document carries
\* the fields the group's last valid operation for that member sets.
C7_SiblingsOfRejectedPersist ==
  (flushes # << >> /\ LastFlush.outcome.kind = "BulkWriteError") =>
    \A k \in ValidOps(LastFlush) :
      \E j \in DOMAIN staging :
        /\ staging[j].memberId = LastFlush.ops[k].filter.memberId
        /\ \A fld \in DOMAIN LastFlush.ops[k].set :
             /\ fld \in DOMAIN staging[j]
             /\ staging[j][fld] = LastFlush.ops[LastValidFor(LastFlush, k)].set[fld]

\* a group whose first operation was rejected and a later one was valid
C7_Witness ==
  /\ flushes # << >>
  /\ LastFlush.outcome.kind = "BulkWriteError"
  /\ \E k \in LastFlush.outcome.rejected, v \in ValidOps(LastFlush) : k < v

----------------------------------------------------------------------------
(* C8: batch boundary *)

FlushSizes == [j \in DOMAIN flushes |-> Len(flushes[j].ops)]

\* the flush threshold of the running strategy
FlushThreshold == IF strategy = "batched" THEN BatchFlushSize ELSE ConcFlushSize

BoundaryFlushes ==
  /\ Len(eligibility_docs) = batch_size => Len(flushes) = 1
  /\ Len(eligibility_docs) = batch_size + 1 => FlushSizes = <<batch_size, 1>>

\* C8 as stated: B records cause exactly one flush, B+1 records cause two,
\* of B and of 1 operations.
C8_BoundaryFlushes == RunDone => BoundaryFlushes

\* C8 as amended: the same, provided B does not exceed the flush threshold
\* of the strategy and every record's fetch succeeded.
C8_BoundaryFlushesUnderThreshold ==
  ( /\ RunDone
    /\ batch_size <= FlushThreshold
    /\ fetched = 1..Len(eligibility_docs) )
  => BoundaryFlushes

\* a complete run over B+1 records, with a rejected write along the way
C8_Witness ==
  /\ RunDone
  /\ batch_size <= FlushThreshold
  /\ Len(eligibility_docs) = batch_size + 1
  /\ fetched = 1..Len(eligibility_docs)
  /\ FlushSizes = <<batch_size, 1>>
  /\ batch_size >= 2

----------------------------------------------------------------------------
(* C9: claim arrays are always present *)

IsSequence(x) == \E n \in 0..(Len(edps) + Len(pharmacy)) : DOMAIN x = 1..n

\* the source pharmacy claims stored under a member id
PharmacyUnder(m) == SelectSeq(pharmacy, LAMBDA c : Get(c, "Member ID") = m)

\* C9: every staging document has medicalClaims and pharmacyClaims, both
\* sequences, and empty when the source holds no claim for the member.
C9_ClaimArraysPresent ==
  \A j \in DOMAIN staging :
    /\ "medicalClaims" \in DOMAIN staging[j]
    /\ "pharmacyClaims" \in DOMAIN staging[j]
    /\ IsSequence(staging[j].medicalClaims)
    /\ IsSequence(staging[j].pharmacyClaims)
    /\ ClaimsUnder(Translated(staging[j].memberId)) = << >>
         => staging[j].medicalClaims = << >>
    /\ PharmacyUnder(staging[j].memberId) = << >>
         => staging[j].pharmacyClaims = << >>

\* a document without medical claims and one without pharmacy claims,
\* written by each strategy in turn
C9_Witness ==
  /\ Len(history) = 2 /\ history[1].strategy # history[2].strategy
  /\ history[1].clean /\ history[2].clean
  /\ \E i, j \in DOMAIN staging :
       /\ staging[i].medicalClaims = << >> /\ staging[i].pharmacyClaims # << >>
       /\ staging[j].pharmacyClaims = << >> /\ staging[j].medicalClaims # << >>

----------------------------------------------------------------------------
(* C10: a failing fetch task *)

FlushedPositions == UNION { Range(flushes[j].pos) : j \in DOMAIN flushes }

\* index of the batch an eligibility position belongs to
BatchOf(p) == (p - 1) \div batch_size

\* C10: in the concurrent strategy a raising task never ends the run; once
\* its batch has returned, every task that succeeded has had its operation
\* flushed; and a complete run has submitted every record and counted it.
C10_TaskErrorIsolated ==
  strategy = "concurrent" =>
    /\ pc # "crashed"
    /\ pc \in {"stream", "close", "done"} => fetched \subseteq FlushedPositions
    /\ RunDone =>
         /\ QueriedPositions = 1..Len(eligibility_docs)
         /\ total_processed = Len(eligibility_docs)

\* a complete concurrent run in which a task raised, a task of the same
\* batch was flushed, and a task of a later batch was flushed
C10_Witness ==
  /\ RunDone /\ strategy = "concurrent"
  /\ \E p, q, r \in 1..Len(eligibility_docs) :
       /\ p \notin fetched
       /\ q \in fetched /\ q \in FlushedPositions /\ BatchOf(q) = BatchOf(p)
       /\ r \in FlushedPositions /\ BatchOf(r) > BatchOf(p)

----------------------------------------------------------------------------
(* C11: a failing claims query *)

\* C11: in both strategies a claims query that raises while a batch is being
\* processed never aborts the run, and a complete run has fetched for and
\* counted every record of the eligibility stream.
C11_QueryFailureContained ==
  /\ pc # "crashed"
  /\ RunDone =>
       /\ QueriedPositions = 1..Len(eligibility_docs)
       /\ total_processed = Len(eligibility_docs)

----------------------------------------------------------------------------
(* C12: a failing bulk flush *)

\* the flushes of the current run whose bulk_write raised
FailedFlushes == { j \in DOMAIN flushes : flushes[j].outcome.kind # "ok" }

\* once the batch of a failed flush has returned, every fetched record has
\* had its operation handed to execute_bulk, and a complete run has counted
\* every record
C12_LaterOperationsFlushed ==
  FailedFlushes # {} =>
    /\ pc \in {"stream", "close", "done"} => fetched \subseteq FlushedPositions
    /\ RunDone => total_processed = Len(eligibility_docs)

\* the step in which a flush fails leaves the run going
C12_NoExceptionEscapes ==
  (Len(flushes') > Len(flushes) /\ flushes'[Len(flushes')].outcome.kind # "ok")
    => pc' \in {pc, "stream", "close"}

\* C12: when a bulk flush fails, partly or entirely, no exception escapes
\* execute_bulk and the run goes on: the operations buffered after it in the
\* same batch and those of all later batches are still flushed.
C12_FlushFailureContained ==
  [] C12_LaterOperationsFlushed /\ [][C12_NoExceptionEscapes]_vars

\* a complete run in which a flush failed and a later flush succeeded
C12_Witness ==
  /\ RunDone
  /\ \E j \in FailedFlushes, k \in DOMAIN flushes :
       /\ j < k /\ flushes[k].outcome.kind = "ok"
       /\ fetched = 1..Len(eligibility_docs)
       /\ fetched \subseteq FlushedPositions

----------------------------------------------------------------------------
(* C13: order of task completion *)

\* runs r and r+1 are consecutive complete runs of the concurrent pipeline
\* with the same batch size, neither with a failure: the same batches over
\* the same sources, differing only in the order the tasks completed
SameBatchesTwice(r) ==
  /\ r + 1 \in DOMAIN history
  /\ history[r + 1].run = history[r].run + 1
  /\ history[r].strategy = "concurrent" /\ history[r + 1].strategy = "concurrent"
  /\ history[r + 1].batch_size = history[r].batch_size
  /\ history[r].clean /\ history[r + 1].clean

\* C13: the documents the concurrent process_batch leaves in the staging
\* store do not depend on the order in which the member tasks complete: two
\* executions of the same batches leave the same documents, timestamps aside.
C13_CompletionOrderIrrelevant ==
  \A r \in DOMAIN history :
    SameBatchesTwice(r) =>
      DocSet(history[r].staging, {"updatedAt", "createdAt"})
        = DocSet(history[r + 1].staging, {"updatedAt", "createdAt"})

----------------------------------------------------------------------------
(* C14: the shared operations buffer *)

\* places of the flushed groups, and of the buffer, that hold the operation
\* of eligibility position p
FlushSlots(p) ==
  { <<j, k>> \in (DOMAIN flushes) \X (1..MaxBatchSize) :
      k \in DOMAIN flushes[j].pos /\ flushes[j].pos[k] = p }

BufferSlots(p) == { k \in DOMAIN ops_pos : ops_pos[k] = p }

\* the task of position p returned a document and the as_completed loop has
\* taken it
Collected(p) ==
  /\ p \in fetched
  /\ \A k \in DOMAIN futures : futures[k].pos = p => futures[k].state = "yielded"

\* C14: in the concurrent strategy, whatever the interleaving of the tasks,
\* the result of every task that completed is held exactly once, in the
\* buffer or in one flushed group, and nothing else is; the operation is the
\* upsert of that task's member; when the batch returns the buffer is empty,
\* so every completed task is in exactly one flush.
C14_EachResultInOneFlush ==
  strategy = "concurrent" =>
    /\ \A p \in 1..Len(eligibility_docs) :
         Cardinality(FlushSlots(p)) + Cardinality(BufferSlots(p))
           = IF Collected(p) THEN 1 ELSE 0
    /\ \A j \in DOMAIN flushes :
         /\ Len(flushes[j].ops) = Len(flushes[j].pos)
         /\ \A k \in DOMAIN flushes[j].ops :
              flushes[j].ops[k].filter.memberId
                = Str(eligibility_docs[flushes[j].pos[k]].memberId)
    /\ Len(ops) = Len(ops_pos)
    /\ pc \in {"stream", "close", "done"} =>
         /\ ops = << >>
         /\ \A p \in fetched : Cardinality(FlushSlots(p)) = 1

\* a complete concurrent run whose tasks completed out of submission order,
\* flushed in two groups
C14_Witness ==
  /\ RunDone /\ strategy = "concurrent"
  /\ Len(flushes) = 2 /\ Len(flushes[1].pos) = 2
  /\ flushes[1].pos[1] > flushes[1].pos[2]
  /\ Cardinality(fetched) = 3

----------------------------------------------------------------------------
(* C15: the eligibility cursor *)

\* process_batch has been entered and has not returned
BatchInProgress == pc \in {"process", "merge", "join"}

\* the find() cursor on the eligibility collection is neither exhausted nor
\* closed, and records remain for the server to deliver
ServerCursorOpen == cursor = "open" /\ pos < Len(eligibility_docs)

\* C15: no cursor on the eligibility source is open while a batch is being
\* processed.
C15_NoCursorOpenDuringBatch == BatchInProgress => ~ServerCursorOpen

----------------------------------------------------------------------------
(* C16: the crosswalk snapshot *)

\* a call of load_members_claims_to_database is in progress
RunInProgress == pc \in {"stream", "process", "merge", "join", "close"}

C16_MappingOnlyRead == RunInProgress => mbi_map' = mbi_map

C16_TranslatedAgainstSnapshot ==
  \A q \in queries : q.medical = MapGet(mbi_map, q.member_id, q.member_id)

\* C16: from its load to the end of the run the crosswalk mapping never
\* changes, whatever happens to the crosswalk collection meanwhile, and the
\* medical lookup of every member of the run is the one that mapping gives.
C16_CrosswalkSnapshot ==
  [][C16_MappingOnlyRead]_vars /\ [] C16_TranslatedAgainstSnapshot

\* a complete run during which the crosswalk collection changed, so that a
\* member was looked up under an id the collection no longer gives
C16_Witness ==
  /\ RunDone
  /\ mbi_map # get_mbi_crosswalk_map(crosswalk)
  /\ \E q \in queries :
       q.medical # MapGet(get_mbi_crosswalk_map(crosswalk), q.member_id, q.member_id)

----------------------------------------------------------------------------
(* C19: the crosswalk mapping *)

\* the crosswalk document has a MemberID and an MBI, neither None nor empty
HasBoth(d) ==
  /\ "MemberID" \in DOMAIN d /\ "MBI" \in DOMAIN d
  /\ Truthy(d.MemberID) /\ Truthy(d.MBI)

\* C19: the keys of the mapping get_mbi_crosswalk_map returns are exactly
\* the MemberID values, as strings, of the crosswalk documents that have
\* both a MemberID and an MBI, and each key maps to the MBI of such a
\* document with that MemberID.
C19_CrosswalkMapKeys ==
  run >= 1 =>
    /\ DOMAIN mbi_map
         = { Str(crosswalk[j].MemberID) :
               j \in { i \in DOMAIN crosswalk : HasBoth(crosswalk[i]) } }
    /\ \A k \in DOMAIN mbi_map :
         \E j \in DOMAIN crosswalk :
           /\ HasBoth(crosswalk[j])
           /\ Str(crosswalk[j].MemberID) = k
           /\ crosswalk[j].MBI = mbi_map[k]

\* a mapping loaded from a collection holding an integer MemberID, a
\* document of A and a document lacking a side
C19_Witness ==
  /\ run >= 1
  /\ DOMAIN mbi_map = {"7", "A"}
  /\ \E i, j, k \in DOMAIN crosswalk :
       /\ i < j /\ HasBoth(crosswalk[i]) /\ HasBoth(crosswalk[j])
       /\ crosswalk[i].MemberID = "int:7" /\ crosswalk[j].MemberID = "A"
       /\ ~HasBoth(crosswalk[k])

----------------------------------------------------------------------------
(* C20: queries of the batched strategy *)

\* the distinct find() calls issued on a source for the batch ending at
\* eligibility position "at"
FindsOf(source, at) == { c \in DOMAIN finds : c.source = source /\ c.at = at }

\* exactly one find() call was issued on the source for the batch, and its
\* filter is the given id set
OneFind(source, at, ids) ==
  /\ Cardinality(FindsOf(source, at)) = 1
  /\ \A c \in FindsOf(source, at) : finds[c] = 1 /\ c.ids = ids

\* end positions of the batches whose fetch returned
FetchedBatchEnds ==
  { p \in fetched : p = Len(eligibility_docs) \/ p % batch_size = 0 }

\* member ids of the batch ending at position "at"
BatchMembers(at) ==
  { Str(eligibility_docs[p].memberId) :
      p \in (((at - 1) \div batch_size) * batch_size + 1)..at }

\* C20 as stated: per batch the batched strategy issues exactly one medical
\* and exactly one pharmacy query, each filtering on the translated ids of
\* the batch's members.
C20_OneQueryPerSourceOnTranslatedIds ==
  strategy = "batched" =>
    \A at \in FetchedBatchEnds :
      /\ OneFind("medical", at, { Translated(m) : m \in BatchMembers(at) })
      /\ OneFind("pharmacy", at, { Translated(m) : m \in BatchMembers(at) })

\* C20 as amended: per batch whose fetch returns, exactly one medical query
\* filtering on the translated ids and exactly one pharmacy query filtering
\* on the raw memberIds; no other claims query is issued, and a batch whose
\* medical query raises issues no pharmacy query.
C20_OneQueryPerSourceMedicalTranslated ==
  strategy = "batched" =>
    /\ \A at \in FetchedBatchEnds :
         /\ OneFind("medical", at, { Translated(m) : m \in BatchMembers(at) })
         /\ OneFind("pharmacy", at, BatchMembers(at))
    /\ \A c \in DOMAIN finds :
         /\ finds[c] = 1
         /\ c.at \in FetchedBatchEnds \/ pc = "crashed"
         /\ c.source = "pharmacy" => FindsOf("medical", c.at) # {}

\* a complete batched run of two batches, one of them with two members, one
\* of which the crosswalk translates
C20_Witness ==
  /\ RunDone /\ strategy = "batched"
  /\ Cardinality(FetchedBatchEnds) = 2
  /\ \E c \in DOMAIN finds :
       c.source = "medical" /\ Cardinality(c.ids) = 2 /\ "X" \in c.ids

----------------------------------------------------------------------------
(* C17: responses of the inference service that are no suspect array *)

\* the value is an object carrying the fields of a suspect
IsSuspectObject(v) == v.type = "dict" /\ SuspectFields \subseteq DOMAIN v.doc

\* the service answered with JSON text that parses to an array of suspect
\* objects
ConformingResponse(outcome) ==
  /\ outcome \notin {API_ERROR, NULL}
  /\ ~json_loads(outcome).raised
  /\ json_loads(outcome).value.type = "list"
  /\ \A j \in DOMAIN json_loads(outcome).value.items :
       IsSuspectObject(json_loads(outcome).value.items[j])

\* the engine processed every batch of its input
AllBatchesProcessed ==
  IF engine = "main"
  THEN /\ engine_total_processed = Len(engine_docs)
       /\ Len(llm_log) = (Len(engine_docs) + engine_batch_size - 1) \div engine_batch_size
  ELSE Len(llm_log) * engine_batch_size = skip

\* C17: a response that is no JSON, or parses to something that is not an
\* array of suspect objects, saves nothing for its batch, no exception leaves
\* the batch, and the remaining batches are still processed.
C17_NonConformingResponseSavesNothing ==
  /\ \A i \in DOMAIN llm_log :
       ~ConformingResponse(llm_log[i].response) => llm_log[i].written = 0
  /\ engine_pc = "done" => AllBatchesProcessed

----------------------------------------------------------------------------
(* C18: exported fill dates *)

DateStrings == {"2024-01-05", "2023-12-31"}

\* every fill date of the members is a YYYY-MM-DD string or None
FillDatesExported(members) ==
  \A j \in DOMAIN members : \A c \in DOMAIN members[j].pharmacyClaims :
    members[j].pharmacyClaims[c].fillDate \in DateStrings \cup {NULL}

\* C18: in every fetch path the exported fillDate is a YYYY-MM-DD string or
\* None, a missing or unformattable Fill Date yields None, and no Fill Date
\* raises an error that fails the member or the batch.
C18_FillDateStringOrNone ==
  /\ FillDatesExported(staging)
  /\ FillDatesExported(members_with_claims)
  /\ engine_pc # "crashed"

----------------------------------------------------------------------------
(* C21: states of the orchestrator loop *)

\* the loop state of load_members_claims_to_database: appending records,
\* holding a batch for process_batch, inside process_batch, past the loop;
\* Aborted when an exception left the call
LoopState ==
  CASE pc = "stream" -> "Streaming"
    [] pc = "process" -> "Batch-Ready"
    [] pc \in {"merge", "join"} -> "Flushing"
    [] pc \in {"close", "done"} -> "Done"
    [] pc = "crashed" -> "Aborted"
    [] OTHER -> "Idle"

\* the moves of the loop: Flushing -> Done is the return of the trailing
\* partial batch, Streaming -> Done an exhausted source with no record left
LoopMoves ==
  { <<"Streaming", "Batch-Ready">>, <<"Batch-Ready", "Flushing">>,
    <<"Flushing", "Streaming">>, <<"Flushing", "Done">>, <<"Streaming", "Done">> }

\* within a run the loop state changes along LoopMoves only
LoopOrder ==
  (run' = run /\ LoopState' # LoopState) => <<LoopState, LoopState'>> \in LoopMoves

\* a record is consumed only while streaming, with no operation buffered
\* and no task of the previous batch left
ConsumesBetweenBatches ==
  (run' = run /\ pos' # pos) =>
    LoopState = "Streaming" /\ ops = << >> /\ futures = << >>

\* a call that was started is past its loop
RunStarted == pc \notin {"idle", "done"}

\* C21: the loop only moves Streaming -> Batch-Ready -> Flushing ->
\* Streaming, consumes no record of the next batch before the current
\* batch's flushes returned, and every started run reaches Done, the
\* trailing partial batch processed before that.
C21_LoopReachesDone ==
  /\ [][LoopOrder /\ ConsumesBetweenBatches]_vars
  /\ [](RunDone => QueriedPositions = 1..Len(eligibility_docs))
  /\ (RunStarted ~> RunDone)

----------------------------------------------------------------------------
(* C22: states of a member within a run *)

\* flush places where the operation of position p reached the store
PersistedSlots(p) ==
  { sl \in FlushSlots(p) :
      sl[2] \in Applied(flushes[sl[1]].ops, flushes[sl[1]].outcome) }

\* the claims query of position p raised
FetchFailed(p) == p \in QueriedPositions \ fetched

\* the state of the eligibility record at position p in the current run.
\* Fetching is the inside of the fetch step and is never seen between two
\* steps; an operation that a flush did not apply has failed from Queued.
MemberState(p) ==
  IF PersistedSlots(p) # {} THEN "Persisted"
  ELSE IF FlushSlots(p) # {} THEN "Failed"
  ELSE IF BufferSlots(p) # {} THEN "Queued"
  ELSE IF p \in fetched THEN "Merged"
  ELSE IF p \in QueriedPositions THEN "Failed"
  ELSE "Pending"

\* the moves of a record from one step to the next: a fetch goes through
\* Fetching, an append that fills the flush group goes through Queued
MemberMoves ==
  { <<"Pending", "Merged">>, <<"Pending", "Failed">>,
    <<"Merged", "Queued">>, <<"Merged", "Persisted">>, <<"Merged", "Failed">>,
    <<"Queued", "Persisted">>, <<"Queued", "Failed">> }

\* within a run every record stays where it is or makes one of the moves
MemberOrder ==
  run' = run =>
    \A p \in 1..Len(eligibility_docs) :
      \/ MemberState(p)' = MemberState(p)
      \/ <<MemberState(p), MemberState(p)'>> \in MemberMoves

\* the upsert operations of the run's flushes that carry member id m
FlushedOpsOf(m) ==
  { sl \in (DOMAIN flushes) \X (1..MaxBatchSize) :
      sl[2] \in DOMAIN flushes[sl[1]].ops
        /\ flushes[sl[1]].ops[sl[2]].filter.memberId = m }

\* C22 as stated: members only move Pending -> Fetching -> Merged -> Queued
\* -> Persisted or into Failed from Fetching or Queued; Failed and Persisted
\* are terminal, a failed member's task is not resubmitted and no upsert
\* operation for a failed member appears in any flush of the run.
C22_FailedMemberInNoFlush ==
  /\ [][MemberOrder]_vars
  /\ [](\A c \in DOMAIN finds : finds[c] = 1)
  /\ [](\A p \in 1..Len(eligibility_docs) :
          MemberState(p) = "Failed" =>
            FlushedOpsOf(Str(eligibility_docs[p].memberId)) = {})

\* C22 as amended: the same moves per eligibility record; a record whose
\* fetch failed has no operation in the buffer or in any flush; a record
\* whose operation a flush did not apply is in that one flush only; no
\* record is fetched twice or flushed twice.
C22_FailedRecordNotRetried ==
  /\ [][MemberOrder]_vars
  /\ [](\A c \in DOMAIN finds : finds[c] = 1)
  /\ [](\A p \in 1..Len(eligibility_docs) :
          /\ Cardinality(FlushSlots(p)) + Cardinality(BufferSlots(p)) <= 1
          /\ FetchFailed(p) => FlushSlots(p) = {} /\ BufferSlots(p) = {})

\* a complete concurrent run over two records of one member: the fetch of
\* one failed, the operation of the other was persisted
C22_Witness ==
  /\ RunDone /\ strategy = "concurrent"
  /\ \E p, q \in 1..Len(eligibility_docs) :
       /\ eligibility_docs[p].memberId = eligibility_docs[q].memberId
       /\ MemberState(p) = "Failed" /\ FetchFailed(p)
       /\ MemberState(q) = "Persisted"

----------------------------------------------------------------------------
(* C23: the staging document holds the current claims *)

\* a merged pharmacy list holds exactly the given source claims, in order
HoldsPharmacy(merged, source, m) ==
  /\ Len(merged) = Len(source)
  /\ \A k \in 1..Len(source) :
       /\ merged[k].memberId = m
       /\ merged[k].drugName = Get(source[k], "Product Label Name")
       /\ merged[k].fillDate = safe_date(Get(source[k], "Fill Date"))

\* every member of the eligibility source has one staging document and it
\* holds the medical claims now stored under the member's translated id and
\* the pharmacy claims now stored under its memberId, each once; the
\* memberId is the one the document carries, the text of the eligibility
\* memberId (claims stored under the integer 7 are not claims of "7")
StagingHoldsCurrentClaims ==
  \A m \in ElMembers :
    /\ Cardinality(DocsOf(staging, m)) = 1
    /\ \A j \in DocsOf(staging, m) :
         /\ HoldsClaims(staging[j].medicalClaims, ClaimsUnder(Translated(m)))
         /\ HoldsPharmacy(staging[j].pharmacyClaims, PharmacyUnder(m), m)

\* the call returns
RunEnds == pc = "close" /\ pc' = "done"

\* C23: when a run in which no fetch and no flush failed ends, every
\* member's staging document holds exactly the claims then in the sources
\* for it, whatever an earlier run stored: removed claims are gone and no
\* claim appears twice.
C23_DocumentHoldsCurrentClaims ==
  [][(RunEnds /\ clean) => StagingHoldsCurrentClaims']_vars

\* a second clean run has ended after a claim source lost claims: a
\* document that held a medical claim after the first run holds none now
C23_Witness ==
  /\ RunDone /\ Len(history) = 2
  /\ history[1].clean /\ history[2].clean
  /\ \E j \in DOMAIN staging, i \in DOMAIN history[1].staging :
       /\ history[1].staging[i].memberId = staging[j].memberId
       /\ history[1].staging[i].medicalClaims # << >>
       /\ staging[j].medicalClaims = << >>

----------------------------------------------------------------------------
(* C24: every eligibility record reaches process_batch once, in order *)

\* the calls of process_batch that were handed eligibility position p
PassedAt(p) ==
  { c \in { <<i, j>> : i \in DOMAIN passed, j \in 1..MaxBatchSize } :
      c[2] \in DOMAIN passed[c[1]].pos /\ passed[c[1]].pos[c[2]] = p }

\* call i received the next records of the query result, in source order:
\* never an empty batch, exactly batch_size records, or fewer only when it
\* is the last call and the result ends with it
ChunkInOrder(i) ==
  LET b == passed[i].batch
      at == passed[i].pos
  IN  /\ b # << >>
      /\ Len(b) <= batch_size
      /\ at[1] = (i - 1) * batch_size + 1
      /\ \A j \in DOMAIN b :
           /\ at[j] = at[1] + j - 1
           /\ at[j] \in DOMAIN eligibility_docs
           /\ b[j] = eligibility_docs[at[j]]
      /\ ( Len(b) < batch_size =>
             /\ i = Len(passed)
             /\ at[Len(b)] = Len(eligibility_docs) )

\* C24: in both loaders the batches handed to process_batch are the
\* consecutive chunks of the eligibility query result, in source order,
\* each of exactly batch_size records except a final one of 1..batch_size-1
\* records, never empty; when the loop has ended every record was handed
\* over exactly once and total_processed equals the number of records.
C24_EveryRecordPassedOnce ==
  /\ \A i \in DOMAIN passed : ChunkInOrder(i)
  /\ \A p \in DOMAIN eligibility_docs : Cardinality(PassedAt(p)) <= 1
  /\ ( RunDone =>
         /\ \A p \in DOMAIN eligibility_docs : Cardinality(PassedAt(p)) = 1
         /\ total_processed = Len(eligibility_docs) )

\* three records in batches of two: a full batch, then a final batch of one
C24_Witness ==
  /\ RunDone /\ batch_size = 2 /\ Len(eligibility_docs) = 3
  /\ Len(passed) = 2
  /\ Len(passed[1].batch) = 2 /\ Len(passed[2].batch) = 1
  /\ total_processed = 3

----------------------------------------------------------------------------
(* C25: paging of update_suspect_coll.process_all_members *)

\* the staging documents the filter selects, in storage order (the order
\* the unsorted find returns them in while the collection is unchanged)
Matching == SelectSeq(staging, StagingFilter)

PagingStarted == engine = "update_suspect_coll" /\ engine_pc # "idle"
PagingDone == engine = "update_suspect_coll" /\ engine_pc = "done"

\* the submitted batches that contain matching document m
SubmittedIn(m) ==
  { c \in { <<i, j>> : i \in DOMAIN pages, j \in 1..MaxBatchSize } :
      /\ c[2] \in DOMAIN pages[c[1]].members
      /\ pages[c[1]].members[c[2]].memberId = Matching[m].memberId }

\* page i was asked for the window after the previous ones, and a page that
\* loaded holds the matching documents of exactly that window
WindowInOrder(i) ==
  LET page == pages[i]
      last == IF page.skip + engine_batch_size < Len(Matching)
              THEN page.skip + engine_batch_size ELSE Len(Matching)
  IN  /\ page.skip = (i - 1) * engine_batch_size
      /\ ( ~page.raised =>
             /\ Len(page.members) = last - page.skip
             /\ \A j \in DOMAIN page.members :
                  page.members[j].memberId = Matching[page.skip + j].memberId )

\* what holds of the loop whether or not a page query fails
PagingKeepsOrder ==
  PagingStarted =>
    /\ \A i \in DOMAIN pages : WindowInOrder(i)
    /\ \A m \in DOMAIN Matching : Cardinality(SubmittedIn(m)) <= 1
    /\ Len(engine_futures) <= max_workers * 3 + 1
    /\ (PagingDone => engine_total_processed = SumResults(pages))

NoPageRaised == \A i \in DOMAIN pages : ~pages[i].raised

EveryMatchingSubmittedOnce ==
  \A m \in DOMAIN Matching : Cardinality(SubmittedIn(m)) = 1

====
